---- MODULE Spec2Model ----
(***************************************************************************)
(* Scheduling core of the Discord assistant: the event ledger              *)
(* (scheduler/store.ts), the time helpers (scheduler/timeParser.ts), the   *)
(* firing loop and executor (scheduler/index.ts), the scheduling tool      *)
(* (tools/scheduler/index.ts) and the orchestration loop (agent/index.ts,  *)
(* agent/memory.ts).                                                       *)
(*                                                                         *)
(* Every async function is cut at the awaits that touch shared state (the  *)
(* ledger file, a history file, the chat transport, the language model):   *)
(* what runs between two such awaits is one action.  Time is counted in    *)
(* half minutes.  A Date is its epoch value; the clock `now` is the true   *)
(* instant, and nowInParis() is that instant moved by tzShift, the         *)
(* difference between the Europe/Paris offset and the offset of the        *)
(* process's own timezone (date-fns-tz toZonedTime builds a Date whose     *)
(* local fields read the Paris wall clock).                                *)
(***************************************************************************)
EXTENDS Integers, Sequences, FiniteSets, TLC

\* ------------------------------------------------------------------ bounds
MaxTime == 2
MaxTicks == 1
MaxLive == 1
MaxOverlap == 2
MaxRounds == 1
MaxStored == 1
MaxIdSuffix == 0
MaxCalls == 4
MaxDraw == 1
MaxFieldNumber == 3
MaxFieldValue == 7
MaxFieldLen == 4
MaxTurns == 6
MaxBatch == 2
MaxCallsPerRound == 2
MaxDepth == 2
MaxRacers == 2

\* ------------------------------------------------------- program constants
MinuteLen == 2
HourLen == 60 * MinuteLen
DayLen == 24 * HourLen
DiscordLimit == 2000
ChunkLen == 1990
MaxMessagesInHistory == 10

\* The calendar day on which the clock starts (a Wednesday the 10th).
BaseDom == 10
BaseMonth == 6
BaseDow == 3

Users == {"u1", "u2"}
Channels == {"chText", "chThread"}
TickProc(i) == <<"tick", i>>
LiveProc(j) == <<"live", j>>

NoTime == -1000000
NoProbe == [fn |-> "none"]
NoMention == "none"

VARIABLES
  now,        \* the true instant, in half minutes
  tzShift,    \* Paris offset minus process-local offset, in half minutes
  store,      \* scheduler.json: the sequence of ScheduledEvent records
  history,    \* conversations/<channel>.json per (user, channel)
  sent,       \* the message the transport was last asked to deliver
  ticks,      \* the firing-loop ticks (checkAndFireEvents invocations)
  lives,      \* the live turns (handleMessage invocations)
  runs,       \* the orchestration-loop run of each tick / live turn
  ops,        \* the ledger operation each tick / live turn has in flight
  lastTickAt, \* the minute of the last tick node-cron started
  log         \* labels per ledger record (by creation number): created, the
              \* number of records created; disp, how often it was dispatched
              \* to fireEvent; failed, fireEvent threw for it; erred, runAgent
              \* returned an advisory for it; rel, it was asked with "in N unit"
VARIABLE
  probe       \* the argument and the result of the function applied last, in
              \* the specifications that apply one function to drawn inputs

vars == <<now, tzShift, probe, store, history, sent, ticks, lives, runs, ops, lastTickAt, log>>

\* ----------------------------------------------------------------- helpers
Last(s) == s[Len(s)]

\* The least index of a set of indexes, 0 when the set is empty: what
\* Array.prototype.find and String.prototype.indexOf come to.
FirstIdx(S) == IF S = {} THEN 0 ELSE CHOOSE i \in S : \A j \in S : i <= j

FindById(st, id) == FirstIdx({i \in 1..Len(st) : st[i].id = id})

\* date-fns startOfMinute
StartOfMinute(t) == t - (t % MinuteLen)

\* timeParser.ts nowInParis: toZonedTime(new Date(), PARIS_TZ)
NowInParis(t) == t + tzShift

\* ------------------------------------------------------------- time parser
\* A time phrase is the result of matching the input against the parser's
\* regular expressions: [k |-> "in", n, unit], [k |-> "today", h, m],
\* [k |-> "tomorrow", h, m], [k |-> "date", month, day, h, m] or
\* [k |-> "bad"] (no pattern matches).
UnitLen(unit) ==
  CASE unit = "minute" -> MinuteLen
    [] unit = "hour" -> HourLen
    [] unit = "day" -> DayLen
    [] unit = "week" -> 7 * DayLen

NotRecognized == NoTime

\* timeParser.ts parseRelativeTime: addMinutes/addHours/... on nowInParis()
ParseRelativeTime(phrase, t) ==
  IF phrase.k = "in" THEN NowInParis(t) + phrase.n * UnitLen(phrase.unit)
  ELSE NotRecognized

\* The Paris calendar day nowInParis() reads (getFullYear/getMonth/getDate),
\* as the instant at which that day starts.
ParisDayStart(t) == NowInParis(t) - (NowInParis(t) % DayLen)

\* The days of the months of the year of instant 0, and the days of that
\* year before a month.
DaysIn == <<31, 28, 31, 30, 31, 30, 31, 31, 30, 31, 30, 31>>
RECURSIVE DaysBefore(_)
DaysBefore(month) ==
  IF month <= 1 THEN 0 ELSE DaysBefore(month - 1) + DaysIn[month - 1]

\* A Date whose time value is NaN, and the RangeError its toISOString()
\* throws.
InvalidDate == NoTime - 1
RangeErrorThrown == NoTime - 2

\* date-fns-tz fromZonedTime(dateStr, PARIS_TZ) for the text "Y-MM-DD
\* hh:mm:00" of the calendar day that starts at wall-clock reading dayStart:
\* the instant at which the Paris wall clock reads it, which is the reading
\* less the Paris offset; a text whose month, day, hour (above 24) or minute
\* is out of range gives an Invalid Date.
FromZonedTime(validDay, dayStart, h, m) ==
  IF validDay /\ h < 25 /\ m < 60
  THEN (dayStart + h * HourLen + m * MinuteLen) - tzShift
  ELSE InvalidDate

\* timeParser.ts parseAbsoluteTime.  A phrase [k |-> "date", month, day, h,
\* m] is "YYYY-MM-DD at h:m" in the year of instant 0.
ParseAbsoluteTime(phrase, t) ==
  CASE phrase.k = "today" ->
         FromZonedTime(TRUE, ParisDayStart(t), phrase.h, phrase.m)
    [] phrase.k = "tomorrow" ->
         FromZonedTime(TRUE, ParisDayStart(t) + DayLen, phrase.h, phrase.m)
    [] phrase.k = "date" ->
         FromZonedTime(
           /\ phrase.month \in 1..12
           /\ phrase.day >= 1
           /\ phrase.day <= DaysIn[phrase.month],
           ((DaysBefore(phrase.month) + phrase.day)
              - (DaysBefore(BaseMonth) + BaseDom)) * DayLen,
           phrase.h, phrase.m)
    [] OTHER -> NotRecognized

\* timeParser.ts parseTimeToISO: a Date is truthy even when it is invalid,
\* and toISOString() of an Invalid Date throws.
ParseTimeToISO(phrase, t) ==
  IF ParseRelativeTime(phrase, t) # NotRecognized
  THEN ParseRelativeTime(phrase, t)
  ELSE IF ParseAbsoluteTime(phrase, t) = InvalidDate THEN RangeErrorThrown
  ELSE ParseAbsoluteTime(phrase, t)

\* timeParser.ts shouldFireNow
ShouldFireNow(scheduled, t) ==
  StartOfMinute(NowInParis(t)) = StartOfMinute(scheduled)

\* timeParser.ts isInPast: isBefore(new Date(scheduledISO), nowInParis())
IsInPast(scheduled, t) == scheduled < NowInParis(t)

\* ------------------------------------------------------- recurrence fields
\* A cron expression is the sequence of the tokens of its text: Sp a blank,
\* StarTok `*`, Slash `/`, Dash `-`, Comma `,`, Digits(v) a run of digits
\* that reads v, Other any other character.  No two Digits tokens are
\* adjacent.
Sp == [k |-> "sp"]
StarTok == [k |-> "*"]
Slash == [k |-> "/"]
Dash == [k |-> "-"]
Comma == [k |-> ","]
Digits(v) == [k |-> "n", v |-> v]
Other == [k |-> "x"]

\* The weekday field written as a list of its two ends.
RangeAsList(a, b) == <<Digits(a), Comma, Digits(b)>>

\* The texts of single fields.
Star == <<StarTok>>
Num(v) == <<Digits(v)>>
Step(n) == <<StarTok, Slash, Digits(n)>>
Range(a, b) == <<Digits(a), Dash, Digits(b)>>
Listed(f, g) == f \o <<Comma>> \o g

\* The template literal `${f1} ${f2} ${f3} ${f4} ${f5}`.
CronOf(f1, f2, f3, f4, f5) ==
  f1 \o <<Sp>> \o f2 \o <<Sp>> \o f3 \o <<Sp>> \o f4 \o <<Sp>> \o f5

RECURSIVE Split(_, _)
\* String.prototype.split(sep) for a one-character separator: the parts
\* between the separators; two separators in a row give an empty part.
Split(s, sep) ==
  LET i == FirstIdx({j \in 1..Len(s) : s[j] = sep})
  IN IF i = 0 THEN <<s>>
     ELSE <<SubSeq(s, 1, i - 1)>> \o Split(SubSeq(s, i + 1, Len(s)), sep)

SplitBlank(s) == Split(s, Sp)

\* A number or NaN: <<v>> is the number v, <<>> is NaN.
NaN == <<>>

\* parseInt(text, 10): the digits the text starts with, after a sign.
ParseInt(s) ==
  IF s # <<>> /\ s[1].k = "n" THEN <<s[1].v>>
  ELSE IF Len(s) >= 2 /\ s[1] = Dash /\ s[2].k = "n" THEN <<0 - s[2].v>>
  ELSE NaN

\* Number(text): the whole text must be a number; the empty text is 0.
NumberOf(s) ==
  IF s = <<>> THEN <<0>>
  ELSE IF Len(s) = 1 /\ s[1].k = "n" THEN <<s[1].v>>
  ELSE IF Len(s) = 2 /\ s[1] = Dash /\ s[2].k = "n" THEN <<0 - s[2].v>>
  ELSE NaN

\* scheduler/index.ts matchesCronPart; value is never negative.  A
\* comparison with NaN is false, and so is `value % 0 === 0`.
MatchesCronPart(part, value) ==
  IF part = Star THEN TRUE
  ELSE IF Len(part) >= 2 /\ part[1] = StarTok /\ part[2] = Slash
  THEN LET interval == ParseInt(SubSeq(part, 3, Len(part))) IN
       /\ interval # NaN
       /\ interval[1] # 0
       /\ value % (IF interval[1] < 0 THEN 0 - interval[1] ELSE interval[1]) = 0
  ELSE IF \E i \in 1..Len(part) : part[i] = Dash
  THEN LET pieces == Split(part, Dash)
           start == NumberOf(pieces[1])
           end == NumberOf(pieces[2])
       IN /\ start # NaN
          /\ end # NaN
          /\ value >= start[1]
          /\ value <= end[1]
  ELSE IF \E i \in 1..Len(part) : part[i] = Comma
  THEN LET values == Split(part, Comma) IN
       \E i \in 1..Len(values) : NumberOf(values[i]) = <<value>>
  ELSE ParseInt(part) = <<value>>

\* The day numbers of timeParser.ts dayNames.
DayNames ==
  [sunday |-> 0, monday |-> 1, tuesday |-> 2, wednesday |-> 3, thursday |-> 4,
   friday |-> 5, saturday |-> 6, sun |-> 0, mon |-> 1, tue |-> 2, wed |-> 3,
   thu |-> 4, fri |-> 5, sat |-> 6]

RECURSIVE Trim(_)
\* String.prototype.trim
Trim(s) ==
  IF s = <<>> THEN s
  ELSE IF Head(s) = Sp THEN Trim(Tail(s))
  ELSE IF Last(s) = Sp THEN Trim(SubSeq(s, 1, Len(s) - 1))
  ELSE s

\* String.prototype.split(/\s+/): the parts between the runs of blanks.
SplitRuns(s) ==
  IF s = <<>> THEN <<s>>
  ELSE LET parts == Split(s, Sp) IN
       <<parts[1]>> \o
       SelectSeq(SubSeq(parts, 2, Len(parts) - 1), LAMBDA x : x # <<>>) \o
       (IF Len(parts) > 1 THEN <<parts[Len(parts)]>> ELSE <<>>)

\* timeParser.ts parseNaturalCron.  A phrase is [k |-> "everyUnit", unit] for
\* "every minute" / "every hour", [k |-> "everyAt", who, h, m] for "every
\* <who> at h:m" (m is 0 when the phrase gives no minutes), [k |-> "every",
\* n, unit] for "every n minutes" / "every n hours", [k |-> "raw", text] for
\* any other text, given by its tokens.
NoCron == <<>>
ParseNaturalCron(phrase) ==
  IF phrase.k = "everyUnit" /\ phrase.unit = "minute"
  THEN CronOf(Star, Star, Star, Star, Star)
  ELSE IF phrase.k = "everyUnit" /\ phrase.unit = "hour"
  THEN CronOf(Num(0), Star, Star, Star, Star)
  ELSE IF phrase.k = "everyAt" /\ phrase.who \in {"day", "morning", "evening"}
  THEN CronOf(Num(phrase.m), Num(phrase.h), Star, Star, Star)
  ELSE IF phrase.k = "everyAt" /\ phrase.who \in DOMAIN DayNames
  THEN CronOf(Num(phrase.m), Num(phrase.h), Star, Star,
              Num(DayNames[phrase.who]))
  ELSE IF phrase.k = "everyAt" /\ phrase.who = "weekday"
  THEN CronOf(Num(phrase.m), Num(phrase.h), Star, Star, Range(1, 5))
  ELSE IF phrase.k = "everyAt" /\ phrase.who = "weekend"
  THEN CronOf(Num(phrase.m), Num(phrase.h), Star, Star,
              Listed(Num(0), Num(6)))
  ELSE IF phrase.k = "every" /\ phrase.unit = "minute"
  THEN CronOf(Step(phrase.n), Star, Star, Star, Star)
  ELSE IF phrase.k = "every" /\ phrase.unit = "hour"
  THEN CronOf(Num(0), Step(phrase.n), Star, Star, Star)
  ELSE IF phrase.k = "raw"
  THEN LET lower == Trim(phrase.text)
           fields == SplitRuns(lower)
       IN IF Len(fields) = 5 /\ \A i \in 1..5 : fields[i] # <<>>
          THEN lower ELSE NoCron
  ELSE NoCron

\* The field pattern without its repetition `(,\d+(-\d+)?)*`.
MatchesFieldPatternOneItem(part) ==
  \/ part = Star
  \/ Len(part) = 3 /\ part[1] = StarTok /\ part[2] = Slash /\ part[3].k = "n"
  \/ Len(part) = 1 /\ part[1].k = "n"
  \/ Len(part) = 3 /\ part[1].k = "n" /\ part[2] = Dash /\ part[3].k = "n"

\* timeParser.ts isValidCron, the pattern every field is tested with:
\* `*`, `*/` and digits, or items separated by commas, each item digits or
\* digits, a dash and digits.
MatchesFieldPattern(part) ==
  \/ part = Star
  \/ Len(part) = 3 /\ part[1] = StarTok /\ part[2] = Slash /\ part[3].k = "n"
  \/ \A item \in {Split(part, Comma)[i] : i \in 1..Len(Split(part, Comma))} :
       \/ Len(item) = 1 /\ item[1].k = "n"
       \/ Len(item) = 3 /\ item[1].k = "n" /\ item[2] = Dash /\ item[3].k = "n"

\* timeParser.ts isValidCron
IsValidCron(cron) ==
  LET parts == SplitRuns(Trim(cron)) IN
  /\ Len(parts) = 5
  /\ \A i \in 1..5 : MatchesFieldPattern(parts[i])

\* The fields of the Date the tick read from nowInParis().
MinuteOf(t) == (t \div MinuteLen) % 60
HourOf(t) == (t \div HourLen) % 24
DateOf(t) == BaseDom + (t \div DayLen)
MonthOf(t) == BaseMonth
DayOf(t) == (BaseDow + (t \div DayLen)) % 7

\* shouldEventFire without its second rule for one-time events (the overdue
\* rule of lines 78-81).
ShouldEventFireSameMinute(event, tickNow, t) ==
  IF event.type = "once"
  THEN ShouldFireNow(event.schedule, t)
  ELSE IF event.type = "cron"
  THEN LET cronParts == SplitBlank(event.schedule) IN
       /\ Len(cronParts) = 5
       /\ MatchesCronPart(cronParts[1], MinuteOf(tickNow))
       /\ MatchesCronPart(cronParts[2], HourOf(tickNow))
       /\ MatchesCronPart(cronParts[3], DateOf(tickNow))
       /\ MatchesCronPart(cronParts[4], MonthOf(tickNow))
       /\ MatchesCronPart(cronParts[5], DayOf(tickNow))
  ELSE FALSE

\* scheduler/index.ts shouldEventFire: `tickNow` is the Date the tick read
\* when it started, t the instant of this evaluation.
ShouldEventFire(event, tickNow, t) ==
  IF event.type = "once"
  THEN \/ ShouldFireNow(event.schedule, t)
       \/ IsInPast(event.schedule, t) /\ event.triggerCount = 0
  ELSE IF event.type = "cron"
  THEN LET cronParts == SplitBlank(event.schedule) IN
       /\ Len(cronParts) = 5
       /\ MatchesCronPart(cronParts[1], MinuteOf(tickNow))
       /\ MatchesCronPart(cronParts[2], HourOf(tickNow))
       /\ MatchesCronPart(cronParts[3], DateOf(tickNow))
       /\ MatchesCronPart(cronParts[4], MonthOf(tickNow))
       /\ MatchesCronPart(cronParts[5], DayOf(tickNow))
  ELSE FALSE

\* ------------------------------------------------------------------ ledger
\* store.ts generateId: Date.now() in base 36 followed by five random
\* characters; r stands for the milliseconds inside the half minute and the
\* random suffix.
GenerateId(t, r) == <<t, r>>

\* store.ts createScheduledEvent, up to the save: the loaded collection with
\* the new record pushed.  uid is the record's creation number, a label the
\* program never reads.
CreateScheduledEvent(st, draft, id, t, uid) ==
  Append(st, [id |-> id, uid |-> uid,
              userId |-> draft.userId, channelId |-> draft.channelId,
              type |-> draft.type, schedule |-> draft.schedule,
              mention |-> draft.mention, description |-> draft.description,
              status |-> "active", createdAt |-> t,
              lastTriggeredAt |-> NoTime, triggerCount |-> 0,
              completedAt |-> NoTime])

\* store.ts getActiveEvents
GetActiveEvents(st) == SelectSeq(st, LAMBDA e : e.status = "active")

\* markEventTriggered completing every event it marks, whatever its type.
MarkEventTriggeredCompleting(st, eventId, t) ==
  LET i == FindById(st, eventId) IN
  IF i = 0 THEN [found |-> FALSE, buf |-> st]
  ELSE [found |-> TRUE,
        buf |-> [st EXCEPT ![i] = [@ EXCEPT !.lastTriggeredAt = t,
                                            !.triggerCount = @ + 1,
                                            !.status = "completed",
                                            !.completedAt = t]]]

\* store.ts markEventTriggered, up to the save: found tells whether the save
\* happens at all.
MarkEventTriggered(st, eventId, t) ==
  LET i == FindById(st, eventId) IN
  IF i = 0 THEN [found |-> FALSE, buf |-> st]
  ELSE [found |-> TRUE,
        buf |-> [st EXCEPT ![i] =
                  IF st[i].type = "once"
                  THEN [@ EXCEPT !.lastTriggeredAt = t,
                                 !.triggerCount = @ + 1,
                                 !.status = "completed",
                                 !.completedAt = t]
                  ELSE [@ EXCEPT !.lastTriggeredAt = t,
                                 !.triggerCount = @ + 1]]]

\* cancelEvent leaving completedAt as it was.
CancelEventUndated(st, eventId, t) ==
  LET i == FindById(st, eventId) IN
  IF i # 0 /\ st[i].status = "active"
  THEN [ret |-> TRUE,
        buf |-> [st EXCEPT ![i] = [@ EXCEPT !.status = "cancelled"]]]
  ELSE [ret |-> FALSE, buf |-> st]

\* cancelEvent without its test of the status.
CancelEventAnyStatus(st, eventId, t) ==
  LET i == FindById(st, eventId) IN
  IF i # 0
  THEN [ret |-> TRUE,
        buf |-> [st EXCEPT ![i] = [@ EXCEPT !.status = "cancelled",
                                            !.completedAt = t]]]
  ELSE [ret |-> FALSE, buf |-> st]

\* store.ts cancelEvent, up to the save: ret is the value returned, and the
\* save happens only when it is TRUE.
CancelEvent(st, eventId, t) ==
  LET i == FindById(st, eventId) IN
  IF i # 0 /\ st[i].status = "active"
  THEN [ret |-> TRUE,
        buf |-> [st EXCEPT ![i] = [@ EXCEPT !.status = "cancelled",
                                            !.completedAt = t]]]
  ELSE [ret |-> FALSE, buf |-> st]

\* cancelUserEvents without its test of the owner.
CancelUserEventsAnyOwner(st, userId, t) ==
  LET Hit(e) == e.status = "active" IN
  [ret |-> Cardinality({i \in 1..Len(st) : Hit(st[i])}),
   buf |-> [i \in 1..Len(st) |->
             IF Hit(st[i])
             THEN [st[i] EXCEPT !.status = "cancelled", !.completedAt = t]
             ELSE st[i]]]

\* store.ts cancelUserEvents, up to the save (which always happens).
CancelUserEvents(st, userId, t) ==
  LET Hit(e) == e.userId = userId /\ e.status = "active" IN
  [ret |-> Cardinality({i \in 1..Len(st) : Hit(st[i])}),
   buf |-> [i \in 1..Len(st) |->
             IF Hit(st[i])
             THEN [st[i] EXCEPT !.status = "cancelled", !.completedAt = t]
             ELSE st[i]]]

\* store.ts saveSchedulerStore: the whole collection replaces the file.
SaveSchedulerStore(buf) == buf

\* ------------------------------------------------------ orchestration loop
NoOp == [kind |-> "none"]
NoRun == [pc |-> "none"]
NoOutput == [kind |-> "none"]

\* What llm.invoke can throw: an Error with a message (marks: the substrings
\* formatAgentError looks for that the lower-cased message contains), or a
\* value that is not an Error.
ErrRateLimit == [isError |-> TRUE, marks |-> {"rate limit"}]
ErrTimeout == [isError |-> TRUE, marks |-> {"timeout"}]
ErrPlain == [isError |-> TRUE, marks |-> {}]
ErrNotAnError == [isError |-> FALSE, marks |-> {}]
LlmErrors == {ErrTimeout, ErrPlain}

\* runAgent without its catch: what the caller gets is the fault itself.
FormatAgentErrorRethrown(error) ==
  [kind |-> "fault", len |-> 60, cls |-> "none"]

\* agent/index.ts formatAgentError: the class of the advisory returned.
FormatAgentError(error) ==
  LET Has(S) == error.marks \cap S # {} IN
  [kind |-> "advisory",
   len |-> 60,
   cls |-> IF ~error.isError THEN "unexpected"
           ELSE IF Has({"rate limit", "429"}) THEN "rate"
           ELSE IF Has({"timeout", "timed out"}) THEN "timeout"
           ELSE IF Has({"network", "fetch", "econnrefused"}) THEN "network"
           ELSE IF Has({"401", "unauthorized", "api key"}) THEN "auth"
           ELSE IF Has({"500", "502", "503"}) THEN "unavailable"
           ELSE IF Has({"tool"}) /\ Has({"not found"}) THEN "internal"
           ELSE "generic"]

\* createAllTools without the test of options.excludeScheduler.
CreateAllToolsAlways(excludeScheduler) ==
  {"manage_list", "web_search", "manage_conversation", "manage_schedule"}

\* tools/index.ts createAllTools: the names of the catalog.
CreateAllTools(excludeScheduler) ==
  {"manage_list", "web_search", "manage_conversation"}
    \cup (IF ~excludeScheduler THEN {"manage_schedule"} ELSE {})

\* Array.prototype.slice(-n)
LastN(s, n) == IF Len(s) > n THEN SubSeq(s, Len(s) - n + 1, Len(s)) ELSE s

\* The history file of memory.ts before channels were told apart: one per
\* user.
GetHistoryPathOnePerUser(userId, channelId) == <<userId, "chText">>

\* agent/memory.ts getHistoryPath: <sandbox of the user>/conversations/
\* <channel>.json
GetHistoryPath(userId, channelId) == <<userId, channelId>>

\* agent/memory.ts getHistoryAsMessages
GetHistoryAsMessages(h, limit) == LastN(h, limit)

\* agent/index.ts executeAgent, up to its first model call: the catalog is
\* built, the history loaded unless skipped, the model invoked with the
\* tools bound.
ExecuteAgentStart(userId, channelId, input, excludeScheduler, skipHistory) ==
  [pc |-> "llm",
   userId |-> userId, channelId |-> channelId, input |-> input,
   excludeScheduler |-> excludeScheduler, skipHistory |-> skipHistory,
   tools |-> CreateAllTools(excludeScheduler),
   loaded |-> IF skipHistory THEN <<>>
              ELSE GetHistoryAsMessages(history[GetHistoryPath(userId, channelId)],
                                        MaxMessagesInHistory),
   round |-> 0, calls |-> <<>>, requested |-> <<>>, results |-> <<>>,
   usage |-> 0, added |-> 0, bound |-> TRUE, unboundAsked |-> FALSE,
   output |-> NoOutput, failed |-> FALSE, hbuf |-> <<>>]

\* The lengths of the final texts the model returns.
ResponseLens == {100, 2100}

\* What the model can ask of manage_schedule and of the other tools.
TimePhrases ==
  {[k |-> "in", n |-> 1, unit |-> "minute"],
   [k |-> "today", h |-> 0, m |-> 1],
   [k |-> "today", h |-> 0, m |-> 60],
   [k |-> "bad"]}

UnknownId == <<0 - 1, 0>>

ToolRequests ==
  {[name |-> "manage_schedule", action |-> "create_once", scheduleTime |-> ph,
    mention |-> NoMention] : ph \in TimePhrases}
  \cup {[name |-> "manage_schedule", action |-> "cancel", eventId |-> id]
         : id \in {store[i].id : i \in 1..Len(store)} \cup {UnknownId}}
  \cup {[name |-> "manage_schedule", action |-> "cancel_all"],
        [name |-> "manage_conversation", action |-> "clear_history"],
        [name |-> "web_search"],
        [name |-> "no_such_tool"]}

\* agent/index.ts runAgent/executeAgent: a model call returns.  It throws
\* (runAgent's catch turns the fault into an advisory and the run is over),
\* gives the final text, or requests at most n tools.  The results of the
\* round before are in the messages by now and their list is gone.  usage
\* counts the calls that returned, each with its token counts.  The loop of
\* executeAgent goes on as long as the response asks for tools, whether the
\* query had them bound or not; here, for at most `rounds` rounds.
\* unboundAsked records that a query made without tools was answered with a
\* request for tools.
LlmRespondOf(p, n, rounds) ==
  /\ runs[p].pc = "llm"
  /\ \/ /\ \E e \in LlmErrors :
             runs' = [runs EXCEPT ![p].pc = "ret", ![p].failed = TRUE,
                                  ![p].requested = <<>>, ![p].results = <<>>,
                                  ![p].output = FormatAgentError(e)]
        /\ log' = IF p[1] = "tick"
                  THEN [log EXCEPT !.erred = @ \cup {Head(ticks[p[2]].queue).uid}]
                  ELSE log
     \/ /\ \E len \in ResponseLens :
             runs' = [runs EXCEPT ![p].pc = "hist1", ![p].usage = @ + 1,
                                  ![p].requested = <<>>, ![p].results = <<>>,
                                  ![p].output = [kind |-> "text", len |-> len]]
        /\ UNCHANGED log
     \/ /\ runs[p].round < rounds
        /\ \E cs \in UNION {[1..m -> ToolRequests] : m \in 1..n} :
             runs' = [runs EXCEPT ![p].pc = "tools", ![p].round = @ + 1,
                                  ![p].usage = @ + 1,
                                  ![p].unboundAsked = @ \/ ~runs[p].bound,
                                  ![p].calls = cs, ![p].requested = cs,
                                  ![p].results = <<>>]
        /\ UNCHANGED log
  /\ UNCHANGED <<now, tzShift, probe, store, history, sent, ticks, lives, ops,
                 lastTickAt>>

\* The same, the model asking for one tool at a time.
LlmRespond(p) == LlmRespondOf(p, 1, MaxRounds)

\* The tool loop without its try: a call that fails ends the round.
AfterToolCallStopping(run, text) ==
  [run EXCEPT !.calls = IF text \in {"result", "guidance"} THEN Tail(@) ELSE <<>>,
              !.results = Append(@, [name |-> Head(run.calls).name,
                                     text |-> text]),
              !.pc = IF Tail(run.calls) = <<>> \/ text \notin {"result", "guidance"}
                     THEN "llm" ELSE "tools"]

\* The follow-up query made like the first one, with llmWithTools.
AfterToolCallBindingAgain(run, text) ==
  [run EXCEPT !.calls = Tail(@),
              !.results = Append(@, [name |-> Head(run.calls).name,
                                     text |-> text]),
              !.pc = IF Tail(run.calls) = <<>> THEN "llm" ELSE "tools"]

\* agent/index.ts executeAgent, toolResults.push: the entry of the call, then
\* the next call, or the follow-up query when it was the last, made with llm,
\* which has no tools bound.
AfterToolCall(run, text) ==
  [run EXCEPT !.calls = Tail(@),
              !.results = Append(@, [name |-> Head(run.calls).name,
                                     text |-> text]),
              !.bound = IF Tail(run.calls) = <<>> THEN FALSE ELSE @,
              !.pc = IF Tail(run.calls) = <<>> THEN "llm" ELSE "tools"]

\* tools/scheduler/index.ts, the description a created event gets.
DescriptionOf(kind) == IF kind = "once" THEN "Reminder: act" ELSE "Recurring: pattern"

\* tools/scheduler/index.ts func, action create_once up to the ledger's save.
\* A text parseTimeToISO does not recognize is answered with the guidance; a
\* parseTimeToISO that throws creates nothing either: executeAgent catches
\* the fault, enters its message in the results and goes on with the round.
SchedulerCreateOnce(p, call) ==
  LET isoTime == ParseTimeToISO(call.scheduleTime, now)
      run == runs[p]
      draft == [userId |-> run.userId, channelId |-> run.channelId,
                type |-> "once", schedule |-> isoTime,
                mention |-> call.mention,
                description |-> DescriptionOf("once")]
  IN IF isoTime \in {NotRecognized, RangeErrorThrown}
     THEN /\ runs' = [runs EXCEPT ![p] =
                AfterToolCall(run, IF isoTime = RangeErrorThrown
                                   THEN "Error - message" ELSE "guidance")]
          /\ UNCHANGED <<ops, log>>
     ELSE \E r \in 0..MaxIdSuffix :
          /\ ops' = [ops EXCEPT ![p] =
               [kind |-> "create",
                buf |-> CreateScheduledEvent(store, draft, GenerateId(now, r),
                                             now, log.created + 1)]]
          /\ log' = [log EXCEPT
               !.created = @ + 1,
               !.disp = @ @@ ((log.created + 1) :> 0),
               !.rel = IF call.scheduleTime.k = "in"
                       THEN @ \cup {log.created + 1} ELSE @]
          /\ UNCHANGED runs

\* tools/scheduler/index.ts func, action cancel up to the ledger's save.
SchedulerCancel(p, call) ==
  LET res == CancelEvent(store, call.eventId, now) IN
  IF res.ret
  THEN /\ ops' = [ops EXCEPT ![p] = [kind |-> "cancel", buf |-> res.buf]]
       /\ UNCHANGED <<runs, log>>
  ELSE /\ runs' = [runs EXCEPT ![p] = AfterToolCall(runs[p], "guidance")]
       /\ UNCHANGED <<ops, log>>

\* tools/scheduler/index.ts func, action cancel_all up to the ledger's save.
SchedulerCancelAll(p) ==
  /\ ops' = [ops EXCEPT ![p] =
       [kind |-> "cancelAll",
        buf |-> CancelUserEvents(store, runs[p].userId, now).buf]]
  /\ UNCHANGED <<runs, log>>

\* agent/index.ts executeAgent, one tool call of a round: a name the catalog
\* lacks gives "Tool not found", a tool that throws gives its message, and
\* either way the round goes on.  A tool other than the scheduler's and the
\* conversation's gives its result or throws.
ToolInvoke(p) ==
  /\ runs[p].pc = "tools"
  /\ ops[p] = NoOp
  /\ LET call == Head(runs[p].calls) IN
     IF call.name \notin runs[p].tools
     THEN /\ runs' = [runs EXCEPT ![p] =
                AfterToolCall(runs[p], "Error - Tool not found")]
          /\ UNCHANGED <<ops, log, history>>
     ELSE IF call.name = "manage_schedule"
     THEN /\ CASE call.action = "create_once" -> SchedulerCreateOnce(p, call)
               [] call.action = "cancel" -> SchedulerCancel(p, call)
               [] call.action = "cancel_all" -> SchedulerCancelAll(p)
          /\ UNCHANGED history
     ELSE IF call.name = "manage_conversation"
     THEN /\ history' = [history EXCEPT
                          ![GetHistoryPath(runs[p].userId, runs[p].channelId)] = <<>>]
          /\ runs' = [runs EXCEPT ![p] = AfterToolCall(runs[p], "result")]
          /\ UNCHANGED <<ops, log>>
     ELSE /\ \E text \in {"result", "Error - message"} :
               runs' = [runs EXCEPT ![p] = AfterToolCall(runs[p], text)]
          /\ UNCHANGED <<ops, log, history>>
  /\ UNCHANGED <<now, tzShift, probe, store, sent, ticks, lives, lastTickAt>>

\* The save that ends createScheduledEvent, cancelEvent or cancelUserEvents
\* called by the scheduling tool: the collection loaded earlier, as changed in
\* memory, replaces the file.
ToolSave(p) ==
  /\ runs[p].pc = "tools"
  /\ ops[p] # NoOp
  /\ store' = SaveSchedulerStore(ops[p].buf)
  /\ ops' = [ops EXCEPT ![p] = NoOp]
  /\ runs' = [runs EXCEPT ![p] = AfterToolCall(runs[p], "result")]
  /\ UNCHANGED <<now, tzShift, probe, history, sent, ticks, lives, lastTickAt, log>>

\* agent/memory.ts addToHistory up to the save: the file is loaded and the
\* message pushed.
HistoryMessage(run, role) ==
  [role |-> role,
   content |-> IF role = "human" THEN run.input ELSE run.output.kind]

AddToHistoryLoad(p) ==
  /\ runs[p].pc \in {"hist1", "hist2"}
  /\ LET run == runs[p]
         role == IF run.pc = "hist1" THEN "human" ELSE "ai"
     IN runs' = [runs EXCEPT
          ![p].hbuf = Append(history[GetHistoryPath(run.userId, run.channelId)],
                             HistoryMessage(run, role)),
          ![p].pc = IF run.pc = "hist1" THEN "hist1w" ELSE "hist2w"]
  /\ UNCHANGED <<now, tzShift, probe, store, history, sent, ticks, lives, ops,
                 lastTickAt, log>>

\* agent/tokenUsage.ts addTokenUsage, as executeAgent calls it last: the
\* counts the run has summed are added to the user's counters.
AddTokenUsage(run) == [run EXCEPT !.added = @ + run.usage]

\* agent/memory.ts saveHistory: the last N messages replace the file.  After
\* the save of the output executeAgent adds the token counts and returns.
AddToHistorySave(p) ==
  /\ runs[p].pc \in {"hist1w", "hist2w"}
  /\ LET run == runs[p] IN
     /\ history' = [history EXCEPT ![GetHistoryPath(run.userId, run.channelId)] =
                      LastN(run.hbuf, MaxMessagesInHistory)]
     /\ runs' = [runs EXCEPT
          ![p] = IF run.pc = "hist1w"
                 THEN [run EXCEPT !.hbuf = <<>>, !.pc = "hist2"]
                 ELSE AddTokenUsage([run EXCEPT !.hbuf = <<>>, !.pc = "ret"])]
  /\ UNCHANGED <<now, tzShift, probe, store, sent, ticks, lives, ops, lastTickAt, log>>

\* ------------------------------------------------------------- firing loop
IdleTick == [pc |-> "idle"]
IdleLive == [pc |-> "idle"]

\* Channel.fetch: a thread or DM channel is no TextChannel.
IsTextChannel(channelId) == channelId = "chText"

\* What channels.fetch and channel.send can throw.
FetchErrors == {[isError |-> TRUE, message |-> "Unknown Channel"]}
SendErrors == {[isError |-> TRUE, message |-> "Missing Access"]}

\* scheduler/index.ts fireEvent, the text sent: the response with the mention
\* in front; more than 2000 characters go out in pieces of at most 1990.
MentionLen(mention) == IF mention = NoMention THEN 0 ELSE 3
MessageLen(event, response) == response.len + MentionLen(event.mention)
NumChunks(len) ==
  IF len > DiscordLimit THEN (len + ChunkLen - 1) \div ChunkLen ELSE 1

\* The prompt fireEvent builds from the event's action.
ScheduledPrompt == "scheduledPrompt"

\* scheduler/index.ts initScheduler: node-cron runs the callback at every
\* minute, whether or not the previous call has returned.
\* checkAndFireEvents up to its loop: the Date is read and the active events
\* are loaded.
TickStart(i) ==
  /\ ticks[i].pc = "idle"
  /\ i > 1 => ticks[i - 1].pc # "idle"
  /\ now % MinuteLen = 0
  /\ lastTickAt < now
  /\ ticks' = [ticks EXCEPT ![i] =
       [pc |-> "eval", nowAt |-> NowInParis(now),
        queue |-> GetActiveEvents(store),
        err |-> NoOutput, chunk |-> 0]]
  /\ lastTickAt' = now
  /\ UNCHANGED <<now, tzShift, probe, store, history, sent, lives, runs, ops, log>>

\* The tick after the firing of the event at the head of its list is over.
NextEvent(tick) ==
  [tick EXCEPT !.queue = Tail(@), !.pc = "eval", !.err = NoOutput, !.chunk = 0]

\* checkAndFireEvents, the end of the loop.
TickDone(i) ==
  /\ ticks[i].pc = "eval"
  /\ ticks[i].queue = <<>>
  /\ ticks' = [ticks EXCEPT ![i].pc = "done"]
  /\ UNCHANGED <<now, tzShift, probe, store, history, sent, lives, runs, ops,
                 lastTickAt, log>>

\* checkAndFireEvents, one turn of the loop for an event that is not due.
TickSkip(i) ==
  /\ ticks[i].pc = "eval"
  /\ ticks[i].queue # <<>>
  /\ ~ShouldEventFire(Head(ticks[i].queue), ticks[i].nowAt, now)
  /\ ticks' = [ticks EXCEPT ![i] = NextEvent(ticks[i])]
  /\ UNCHANGED <<now, tzShift, probe, store, history, sent, lives, runs, ops,
                 lastTickAt, log>>

\* checkAndFireEvents, one turn of the loop for a due event, and fireEvent up
\* to the model call of runAgent: the channel is fetched (a fault goes to the
\* catch, no text channel ends the firing), the run is started with the
\* scheduler excluded and the history skipped.
TickDispatch(i) ==
  /\ ticks[i].pc = "eval"
  /\ ticks[i].queue # <<>>
  /\ LET event == Head(ticks[i].queue) IN
     /\ ShouldEventFire(event, ticks[i].nowAt, now)
     /\ \/ \E e \in FetchErrors :
             /\ ticks' = [ticks EXCEPT ![i].pc = "notify", ![i].err = e]
             /\ UNCHANGED runs
        \/ /\ ~IsTextChannel(event.channelId)
           /\ ticks' = [ticks EXCEPT ![i] = NextEvent(ticks[i])]
           /\ UNCHANGED runs
        \/ /\ IsTextChannel(event.channelId)
           /\ ticks' = [ticks EXCEPT ![i].pc = "agent"]
           /\ runs' = [runs EXCEPT ![TickProc(i)] =
                ExecuteAgentStart(event.userId, event.channelId,
                                  ScheduledPrompt, TRUE, TRUE)]
     /\ log' = [log EXCEPT !.disp[event.uid] = @ + 1,
                          !.failed = IF ticks'[i].pc = "notify"
                                     THEN @ \cup {event.uid} ELSE @]
  /\ UNCHANGED <<now, tzShift, probe, store, history, sent, lives, ops, lastTickAt>>

\* fireEvent, one channel.send of the response: it succeeds or throws.  After
\* the last piece the event is to be marked.
FireSend(i) ==
  /\ \/ ticks[i].pc = "agent" /\ runs[TickProc(i)].pc = "ret"
     \/ ticks[i].pc = "send"
  /\ LET event == Head(ticks[i].queue)
         response == runs[TickProc(i)].output
         n == NumChunks(MessageLen(event, response))
         k == ticks[i].chunk + 1
     IN \/ /\ sent' = [kind |-> "output", channelId |-> event.channelId,
                      uid |-> event.uid, mention |-> event.mention,
                      text |-> response.kind, part |-> k, of |-> n]
           /\ ticks' = [ticks EXCEPT ![i].chunk = k,
                                     ![i].pc = IF k = n THEN "mark" ELSE "send"]
           /\ UNCHANGED log
        \/ \E e \in SendErrors :
             /\ ticks' = [ticks EXCEPT ![i].pc = "notify", ![i].err = e]
             /\ log' = [log EXCEPT !.failed = @ \cup {event.uid}]
             /\ UNCHANGED sent
  /\ UNCHANGED <<now, tzShift, probe, store, history, lives, runs, ops, lastTickAt>>

\* fireEvent calling markEventTriggered, up to the save: an event that is no
\* longer in the collection ends the firing without a save.
FireMarkLoad(i) ==
  /\ ticks[i].pc = "mark"
  /\ ops[TickProc(i)] = NoOp
  /\ LET res == MarkEventTriggered(store, Head(ticks[i].queue).id, now) IN
     IF res.found
     THEN /\ ops' = [ops EXCEPT ![TickProc(i)] =
                       [kind |-> "mark", buf |-> res.buf]]
          /\ UNCHANGED <<ticks, runs>>
     ELSE /\ ticks' = [ticks EXCEPT ![i] = NextEvent(ticks[i])]
          /\ runs' = [runs EXCEPT ![TickProc(i)] = NoRun]
          /\ UNCHANGED ops
  /\ UNCHANGED <<now, tzShift, probe, store, history, sent, lives, lastTickAt, log>>

\* markEventTriggered, the save; fireEvent returns.
FireMarkSave(i) ==
  /\ ticks[i].pc = "mark"
  /\ ops[TickProc(i)] # NoOp
  /\ store' = SaveSchedulerStore(ops[TickProc(i)].buf)
  /\ ops' = [ops EXCEPT ![TickProc(i)] = NoOp]
  /\ ticks' = [ticks EXCEPT ![i] = NextEvent(ticks[i])]
  /\ runs' = [runs EXCEPT ![TickProc(i)] = NoRun]
  /\ UNCHANGED <<now, tzShift, probe, history, sent, lives, lastTickAt, log>>

\* The text of the notice fireEvent's catch sends.
FailureNotice(event, error) ==
  [kind |-> "notice", channelId |-> event.channelId, uid |-> event.uid,
   mention |-> event.mention, description |-> event.description,
   error |-> IF error.isError THEN error.message ELSE "Unknown error"]

\* fireEvent without the try around the notice: a notice that cannot be sent
\* ends checkAndFireEvents.
FireNotifyUncaught(i) ==
  /\ ticks[i].pc = "notify"
  /\ LET event == Head(ticks[i].queue) IN
     \/ /\ IsTextChannel(event.channelId)
        /\ sent' = FailureNotice(event, ticks[i].err)
        /\ ticks' = [ticks EXCEPT ![i] = NextEvent(ticks[i])]
     \/ /\ UNCHANGED sent
        /\ ticks' = [ticks EXCEPT ![i].pc = "done"]
  /\ runs' = [runs EXCEPT ![TickProc(i)] = NoRun]
  /\ UNCHANGED <<now, tzShift, probe, store, history, lives, ops, lastTickAt, log>>

\* fireEvent with markEventTriggered moved into the catch (a `finally`).
FireNotifyThenMark(i) ==
  /\ ticks[i].pc = "notify"
  /\ LET event == Head(ticks[i].queue) IN
     /\ \/ /\ IsTextChannel(event.channelId)
           /\ sent' = FailureNotice(event, ticks[i].err)
        \/ UNCHANGED sent
     /\ store' = SaveSchedulerStore(MarkEventTriggered(store, event.id, now).buf)
  /\ ticks' = [ticks EXCEPT ![i] = NextEvent(ticks[i])]
  /\ runs' = [runs EXCEPT ![TickProc(i)] = NoRun]
  /\ UNCHANGED <<now, tzShift, probe, history, lives, ops, lastTickAt, log>>

\* fireEvent's catch: the channel is fetched again and, when it is a text
\* channel, the notice is sent; a fault of either is ignored.  fireEvent
\* returns.
FireNotify(i) ==
  /\ ticks[i].pc = "notify"
  /\ LET event == Head(ticks[i].queue) IN
     \/ /\ IsTextChannel(event.channelId)
        /\ sent' = FailureNotice(event, ticks[i].err)
     \/ UNCHANGED sent
  /\ ticks' = [ticks EXCEPT ![i] = NextEvent(ticks[i])]
  /\ runs' = [runs EXCEPT ![TickProc(i)] = NoRun]
  /\ UNCHANGED <<now, tzShift, probe, store, history, lives, ops, lastTickAt, log>>

\* -------------------------------------------------------------- live turns
\* Who writes to the assistant, and where.
LiveContexts == {<<"u1", "chText">>, <<"u2", "chThread">>}

\* handlers/message.ts handleMessage up to the model call of runAgent.
HandleMessage(j) ==
  /\ lives[j].pc = "idle"
  /\ j > 1 => lives[j - 1].pc # "idle"
  /\ \E ctx \in LiveContexts :
       /\ lives' = [lives EXCEPT ![j] = [pc |-> "agent"]]
       /\ runs' = [runs EXCEPT ![LiveProc(j)] =
            ExecuteAgentStart(ctx[1], ctx[2], "userMessage", FALSE, FALSE)]
  /\ UNCHANGED <<now, tzShift, probe, store, history, sent, ticks, ops, lastTickAt, log>>

\* handleMessage, the reply with what runAgent returned.
LiveReply(j) ==
  /\ lives[j].pc = "agent"
  /\ runs[LiveProc(j)].pc = "ret"
  /\ sent' = [kind |-> "reply", channelId |-> runs[LiveProc(j)].channelId,
               text |-> runs[LiveProc(j)].output.kind]
  /\ lives' = [lives EXCEPT ![j].pc = "done"]
  /\ runs' = [runs EXCEPT ![LiveProc(j)] = NoRun]
  /\ UNCHANGED <<now, tzShift, probe, store, history, ticks, ops, lastTickAt, log>>

\* ------------------------------------------------------------------- clock
Advance ==
  /\ now < MaxTime
  /\ now' = now + 1
  /\ UNCHANGED <<tzShift, probe, store, history, sent, ticks, lives, runs, ops,
                 lastTickAt, log>>

\* ------------------------------------------------------------------- start
\* The offsets the process can run under: its own zone is Europe/Paris, UTC
\* (Paris is two hours ahead in summer) or one hour east of Paris.
ParisHost == {0}
TzShifts == {0, 2 * HourLen, 0 - HourLen}

\* The ledger a starting process finds on disk: events created before, none
\* fired yet.  Each is what the scheduling tool stored for a request made at
\* instant `at`: "tomorrow at 0:00" asked at noon the day before, "in 1
\* minute" asked half a minute ago, "every 2 minutes" asked the day before.
StoredBefore ==
  {[at |-> (0 - DayLen) + 12 * HourLen, r |-> 0,
    phrase |-> [k |-> "tomorrow", h |-> 0, m |-> 0],
    userId |-> "u1", type |-> "once", mention |-> NoMention],
   [at |-> 0 - 1, r |-> 0,
    phrase |-> [k |-> "in", n |-> 1, unit |-> "minute"],
    userId |-> "u1", type |-> "once", mention |-> NoMention],
   [at |-> 0 - DayLen, r |-> 1,
    phrase |-> [k |-> "every", n |-> 2, unit |-> "minute"],
    userId |-> "u2", type |-> "cron", mention |-> "@m"]}

\* tools/scheduler/index.ts func: the record create_once / create_recurring
\* hands to createScheduledEvent.
DraftOf(x) ==
  [userId |-> x.userId, channelId |-> "chText", type |-> x.type,
   schedule |-> IF x.type = "once" THEN ParseTimeToISO(x.phrase, x.at)
                ELSE ParseNaturalCron(x.phrase),
   mention |-> x.mention, description |-> DescriptionOf(x.type)]

RECURSIVE StoreOf(_)
StoreOf(xs) ==
  IF xs = <<>> THEN <<>>
  ELSE CreateScheduledEvent(StoreOf(SubSeq(xs, 1, Len(xs) - 1)), DraftOf(Last(xs)),
                            GenerateId(Last(xs).at, Last(xs).r), Last(xs).at,
                            Len(xs))

\* The lists of at most n different requests out of `requests`.
StoredListsOf(requests, n) ==
  {xs \in UNION {[1..m -> requests] : m \in 0..n} :
     \A i, j \in DOMAIN xs : i # j => xs[i] # xs[j]}

\* The requests behind the stored ledgers of at most n events.
StoredLists(n) == StoredListsOf(StoredBefore, n)

ProcsOf(nTicks, nLive) ==
  {TickProc(i) : i \in 1..nTicks} \cup {LiveProc(j) : j \in 1..nLive}

\* The state a process starts in, with room for nTicks ticks and nLive live
\* turns, under one of the offsets `shifts` and with at most nStored events
\* on disk.
InitFrom(nTicks, nLive, shifts, lists) ==
  /\ now = 0
  /\ tzShift \in shifts
  /\ \E xs \in lists :
       /\ store = StoreOf(xs)
       /\ log = [created |-> Len(xs), disp |-> [u \in 1..Len(xs) |-> 0],
                 failed |-> {}, erred |-> {},
                 rel |-> {u \in 1..Len(xs) : xs[u].phrase.k = "in"}]
  /\ history = [k \in Users \X Channels |-> <<>>]
  /\ sent = NoOutput
  /\ ticks = [i \in 1..nTicks |-> IdleTick]
  /\ lives = [j \in 1..nLive |-> IdleLive]
  /\ runs = [p \in ProcsOf(nTicks, nLive) |-> NoRun]
  /\ ops = [p \in ProcsOf(nTicks, nLive) |-> NoOp]
  /\ lastTickAt = 0 - 1

InitBase(nTicks, nLive, shifts, nStored) ==
  InitFrom(nTicks, nLive, shifts, StoredLists(nStored))

\* The same, with no function applied on its own.
InitWith(nTicks, nLive, shifts, nStored) ==
  /\ InitBase(nTicks, nLive, shifts, nStored)
  /\ probe = NoProbe

\* One firing loop and live turns beside it.
Init == InitWith(MaxTicks, MaxLive, ParisHost, MaxStored)
Next ==
  \/ Advance
  \/ \E i \in 1..MaxTicks :
       \/ TickStart(i) \/ TickDone(i) \/ TickSkip(i) \/ TickDispatch(i)
       \/ FireSend(i) \/ FireMarkLoad(i) \/ FireMarkSave(i) \/ FireNotify(i)
  \/ \E p \in ProcsOf(MaxTicks, MaxLive) :
       \/ LlmRespond(p) \/ ToolInvoke(p) \/ ToolSave(p)
       \/ AddToHistoryLoad(p) \/ AddToHistorySave(p)
  \/ \E j \in 1..MaxLive : HandleMessage(j) \/ LiveReply(j)
Spec == Init /\ [][Next]_vars

\* The firing loop alone, its ticks free to overlap.
InitTicks == InitWith(MaxOverlap, 0, ParisHost, MaxStored)
TicksNext(n) ==
  \/ Advance
  \/ \E i \in 1..n :
       \/ TickStart(i) \/ TickDone(i) \/ TickSkip(i) \/ TickDispatch(i)
       \/ FireSend(i) \/ FireMarkLoad(i) \/ FireMarkSave(i) \/ FireNotify(i)
  \/ \E p \in ProcsOf(n, 0) :
       \/ LlmRespond(p) \/ ToolInvoke(p)
       \/ AddToHistoryLoad(p) \/ AddToHistorySave(p)
NextTicks == TicksNext(MaxOverlap)
SpecTicks == InitTicks /\ [][NextTicks]_vars

\* The requests made before the start of a process of any zone: those of
\* StoredBefore, "tomorrow at 23:00" asked at noon two days before instant 0,
\* and "tomorrow at 2:02" asked at noon the day before.
ZonedBefore ==
  StoredBefore \cup
  {[at |-> (0 - 2 * DayLen) + 12 * HourLen, r |-> 0,
    phrase |-> [k |-> "tomorrow", h |-> 23, m |-> 0],
    userId |-> "u1", type |-> "once", mention |-> NoMention],
   [at |-> (0 - DayLen) + 12 * HourLen, r |-> 1,
    phrase |-> [k |-> "tomorrow", h |-> 2, m |-> 2],
    userId |-> "u1", type |-> "once", mention |-> NoMention]}

\* One tick under every offset of the process's own zone.
InitZones ==
  /\ InitFrom(MaxTicks, 0, TzShifts, StoredListsOf(ZonedBefore, MaxStored))
  /\ probe = NoProbe
NextZones == TicksNext(MaxTicks)
SpecZones == InitZones /\ [][NextZones]_vars

\* --------------------------------------------- the ledger's operations alone
\* store.ts called by one caller, one call after the other, each call awaited
\* to its save; probe keeps the call made last: its number, its arguments, the
\* collection it loaded and the value it returned.

\* Math.random().toString(36).substring(2, 7), the draws told apart.
IdDraws == 0..MaxDraw

\* The ids generateId can give while the clock is within its bound.
LedgerIds == {GenerateId(t, r) : t \in 0..MaxTime, r \in IdDraws}

LedgerTypes == {"once", "cron"}

LedgerDraft(userId, type) ==
  DraftOf([at |-> now, userId |-> userId, type |-> type, mention |-> NoMention,
           phrase |-> IF type = "once"
                      THEN [k |-> "in", n |-> 1, unit |-> "minute"]
                      ELSE [k |-> "every", n |-> 2, unit |-> "minute"]])

CallsLeft == IF probe = NoProbe THEN TRUE ELSE probe.seq < MaxCalls

NextSeq == IF probe = NoProbe THEN 1 ELSE probe.seq + 1

LedgerFrame ==
  UNCHANGED <<now, tzShift, history, sent, ticks, lives, runs, ops, lastTickAt>>

\* createScheduledEvent(draft), awaited.
LedgerCreate(userId, type, r) ==
  /\ CallsLeft
  /\ LET id == GenerateId(now, r) IN
     /\ store' = SaveSchedulerStore(
                   CreateScheduledEvent(store, LedgerDraft(userId, type), id,
                                        now, log.created + 1))
     /\ probe' = [fn |-> "create", seq |-> NextSeq, before |-> store,
                  id |-> id]
  /\ log' = [log EXCEPT !.created = @ + 1,
                        !.disp = @ @@ ((log.created + 1) :> 0)]
  /\ LedgerFrame

\* cancelEvent(eventId), awaited.
LedgerCancel(eventId) ==
  /\ CallsLeft
  /\ LET res == CancelEvent(store, eventId, now) IN
     /\ store' = IF res.ret THEN SaveSchedulerStore(res.buf) ELSE store
     /\ probe' = [fn |-> "cancel", seq |-> NextSeq, before |-> store,
                  id |-> eventId, at |-> now, ret |-> res.ret]
  /\ UNCHANGED log
  /\ LedgerFrame

\* cancelUserEvents(userId), awaited.
LedgerCancelAll(userId) ==
  /\ CallsLeft
  /\ LET res == CancelUserEvents(store, userId, now) IN
     /\ store' = SaveSchedulerStore(res.buf)
     /\ probe' = [fn |-> "cancelAll", seq |-> NextSeq, before |-> store,
                  userId |-> userId, at |-> now, ret |-> res.ret]
  /\ UNCHANGED log
  /\ LedgerFrame

\* markEventTriggered(eventId), awaited.
LedgerMark(eventId) ==
  /\ CallsLeft
  /\ LET res == MarkEventTriggered(store, eventId, now) IN
     /\ store' = IF res.found THEN SaveSchedulerStore(res.buf) ELSE store
     /\ probe' = [fn |-> "mark", seq |-> NextSeq, before |-> store,
                  id |-> eventId, at |-> now]
  /\ UNCHANGED log
  /\ LedgerFrame

InitLedger == InitWith(0, 0, ParisHost, 0)

NextLedger ==
  \/ Advance
  \/ \E userId \in Users, type \in LedgerTypes, r \in IdDraws :
       LedgerCreate(userId, type, r)
  \/ \E eventId \in LedgerIds : LedgerCancel(eventId) \/ LedgerMark(eventId)
  \/ \E userId \in Users : LedgerCancelAll(userId)

SpecLedger == InitLedger /\ [][NextLedger]_vars

\* ------------------------------------- the recurrence functions on their own
\* matchesCronPart, isValidCron and create_recurring with shouldEventFire,
\* each applied once to an input drawn at the start; probe holds the input
\* and, once the function has been applied (done), its result.

\* The field expressions of the validator's grammar as trees: `*`, `*/n`, or
\* one or two items, each an integer or a range.
FieldNumbers == 0..MaxFieldNumber
FieldItems ==
  {[k |-> "int", v |-> v] : v \in FieldNumbers} \cup
  {[k |-> "range", a |-> a, b |-> b] : a \in FieldNumbers, b \in FieldNumbers}
FieldExprs ==
  {[k |-> "star"]} \cup
  {[k |-> "step", n |-> n] : n \in FieldNumbers \ {0}} \cup
  {[k |-> "items", items |-> <<x>>] : x \in FieldItems} \cup
  {[k |-> "items", items |-> <<x, y>>] : x \in FieldItems, y \in FieldItems}

\* The text of a field expression.
ItemText(x) == IF x.k = "int" THEN Num(x.v) ELSE Range(x.a, x.b)
FieldText(f) ==
  CASE f.k = "star" -> Star
    [] f.k = "step" -> Step(f.n)
    [] f.k = "items" /\ Len(f.items) = 1 -> ItemText(f.items[1])
    [] f.k = "items" /\ Len(f.items) = 2 ->
         Listed(ItemText(f.items[1]), ItemText(f.items[2]))

MatchInputs ==
  {[fn |-> "matchesCronPart", done |-> FALSE, field |-> f, value |-> v] :
     f \in FieldExprs, v \in 0..MaxFieldValue}

\* matchesCronPart(cronPart, value)
ApplyMatchesCronPart ==
  /\ probe.fn = "matchesCronPart"
  /\ ~probe.done
  /\ probe' = [fn |-> "matchesCronPart", done |-> TRUE, field |-> probe.field,
               value |-> probe.value,
               ret |-> MatchesCronPart(FieldText(probe.field), probe.value)]
  /\ UNCHANGED <<now, tzShift, store, history, sent, ticks, lives, runs, ops,
                 lastTickAt, log>>

\* The recurrence phrases asked for, one or more of every kind the
\* translator knows.
CronPhrases ==
  {[k |-> "everyUnit", unit |-> u] : u \in {"minute", "hour"}} \cup
  {[k |-> "everyAt", who |-> w, h |-> x[1], m |-> x[2]] :
     w \in {"day", "morning", "evening", "weekday", "weekend"}
           \cup DOMAIN DayNames,
     x \in {<<9, 0>>, <<8, 30>>}} \cup
  {[k |-> "every", n |-> n, unit |-> "minute"] : n \in {1, 7, 15}} \cup
  {[k |-> "every", n |-> n, unit |-> "hour"] : n \in {2, 5}}

\* The minutes of one week, as instants.
WeekMinutes == {MinuteLen * i : i \in 0..(7 * 24 * 60 - 1)}

\* Phrases and, as "createRaw", expressions given as such: "* * * * *" and
\* the same with two blanks after its first field.
DueInputs ==
  {[fn |-> "createRecurring", done |-> FALSE, phrase |-> ph] :
     ph \in CronPhrases} \cup
  {[fn |-> "createRaw", done |-> FALSE, phrase |-> [k |-> "raw", text |-> tx]] :
     tx \in {CronOf(Star, Star, Star, Star, Star),
             CronOf(Star \o <<Sp>>, Star, Star, Star, Star)}}

\* tools/scheduler/index.ts func, action create_recurring, and then
\* shouldEventFire for the event it stored, by a tick whose nowInParis() is
\* the minute `at`.
ApplyCreateRecurring ==
  /\ probe.fn \in {"createRecurring", "createRaw"}
  /\ ~probe.done
  /\ LET cron == ParseNaturalCron(probe.phrase)
         created == cron # NoCron /\ IsValidCron(cron)
         draft == [userId |-> "u1", channelId |-> "chText", type |-> "cron",
                   schedule |-> cron, mention |-> NoMention,
                   description |-> DescriptionOf("cron")]
         event == CreateScheduledEvent(<<>>, draft, GenerateId(0, 0), 0, 1)[1]
     IN \E at \in WeekMinutes :
          probe' = [fn |-> probe.fn, done |-> TRUE,
                    phrase |-> probe.phrase, at |-> at, created |-> created,
                    ret |-> created /\ ShouldEventFire(event, at, at)]
  /\ UNCHANGED <<now, tzShift, store, history, sent, ticks, lives, runs, ops,
                 lastTickAt, log>>

\* The characters a field is drawn from, and the texts of at most
\* MaxFieldLen of them in which no two runs of digits are adjacent.
FieldAlphabet == {StarTok, Slash, Dash, Comma, Digits(1), Other}
FieldTexts ==
  {f \in UNION {[1..n -> FieldAlphabet] : n \in 0..MaxFieldLen} :
     \A i \in 1..(Len(f) - 1) : ~(f[i].k = "n" /\ f[i + 1].k = "n")}

\* The expressions isValidCron is asked about: four `*` and any field text,
\* expressions of four and of six fields, fields parted by two blanks or
\* with blanks around, and the expressions of the README.
CronTexts ==
  {CronOf(Star, f, Star, Star, Star) : f \in FieldTexts} \cup
  {CronOf(f, Star, Star, Star, Num(0)) : f \in FieldTexts} \cup
  {CronOf(Num(30), Num(9), Star, Star, Range(1, 5)),
   CronOf(Step(15), Star, Star, Star, Star),
   CronOf(Listed(Num(0), Num(30)), Star, Star, Star, Star),
   Num(30) \o <<Sp>> \o Num(9) \o <<Sp>> \o Star \o <<Sp>> \o Star,
   CronOf(Num(61), Star, Star, Star, Star),
   CronOf(Star, Star, Star, Star, Star) \o <<Sp>> \o Star,
   Num(30) \o <<Sp, Sp>> \o Num(9) \o <<Sp>> \o Star \o <<Sp>> \o Star
     \o <<Sp, Sp, Sp>> \o Listed(Range(1, 3), Num(5)),
   <<Sp>> \o CronOf(Num(0), Num(9), Star, Star, Star) \o <<Sp, Sp>>,
   <<>>}

ValidInputs ==
  {[fn |-> "isValidCron", done |-> FALSE, cron |-> c] : c \in CronTexts}

\* isValidCron(cron)
ApplyIsValidCron ==
  /\ probe.fn = "isValidCron"
  /\ ~probe.done
  /\ probe' = [fn |-> "isValidCron", done |-> TRUE, cron |-> probe.cron,
               ret |-> IsValidCron(probe.cron)]
  /\ UNCHANGED <<now, tzShift, store, history, sent, ticks, lives, runs, ops,
                 lastTickAt, log>>

CronInputs == MatchInputs \cup DueInputs \cup ValidInputs

InitCron == InitBase(0, 0, ParisHost, 0) /\ probe \in CronInputs

NextCron ==
  \/ ApplyMatchesCronPart
  \/ ApplyCreateRecurring
  \/ ApplyIsValidCron

SpecCron == InitCron /\ [][NextCron]_vars

\* ------------------------------------------------- the time parser on its own
\* parseTimeToISO applied once to a phrase drawn at the start, at any instant
\* and under any offset of the process's zone.
ParsePhrases ==
  {[k |-> w, h |-> h, m |-> m] :
     w \in {"today", "tomorrow"}, h \in {0, 9, 23, 24, 25, 99},
     m \in {0, 30, 59, 60, 99}} \cup
  {[k |-> "date", month |-> mo, day |-> d, h |-> h, m |-> m] :
     mo \in {0, 2, 6, 12, 13}, d \in {0, 10, 29, 31, 32}, h \in {9, 25},
     m \in {0, 60}} \cup
  {[k |-> "in", n |-> n, unit |-> u] :
     n \in {0, 1, 20}, u \in {"minute", "hour", "day", "week"}} \cup
  {[k |-> "bad"]}

\* parseTimeToISO(input)
ApplyParseTimeToISO ==
  /\ probe.fn = "parseTimeToISO"
  /\ ~probe.done
  /\ probe' = [fn |-> "parseTimeToISO", done |-> TRUE, phrase |-> probe.phrase,
               at |-> now, ret |-> ParseTimeToISO(probe.phrase, now)]
  /\ UNCHANGED <<now, tzShift, store, history, sent, ticks, lives, runs, ops,
                 lastTickAt, log>>

InitParse ==
  /\ InitBase(0, 0, TzShifts, 0)
  /\ probe \in {[fn |-> "parseTimeToISO", done |-> FALSE, phrase |-> ph] :
                  ph \in ParsePhrases}

NextParse == Advance \/ ApplyParseTimeToISO

SpecParse == InitParse /\ [][NextParse]_vars

\* ------------------------------------------------ one tick, several events
\* One tick of the firing loop over a ledger of up to MaxBatch events.
SpecBatch ==
  /\ InitFrom(1, 0, ParisHost, StoredListsOf(StoredBefore, MaxBatch))
  /\ probe = NoProbe
  /\ [][TicksNext(1)]_vars

\* ------------------------------------------- one live turn, several tools
\* One live turn whose model asks for up to MaxCallsPerRound tools at once,
\* in up to MaxDepth rounds.
SpecRound ==
  /\ InitWith(0, 1, ParisHost, MaxStored)
  /\ [][\/ Advance
        \/ HandleMessage(1) \/ LiveReply(1)
        \/ \E p \in ProcsOf(0, 1) :
             \/ LlmRespondOf(p, MaxCallsPerRound, MaxDepth)
             \/ ToolInvoke(p) \/ ToolSave(p)
             \/ AddToHistoryLoad(p) \/ AddToHistorySave(p)]_vars

\* -------------------------------------- ledger operations of live turns
\* handleMessage and executeAgent up to the tool round, for a turn whose
\* model asks for one call of the scheduling tool.
ToolRoundStart(j) ==
  /\ lives[j].pc = "idle"
  /\ j > 1 => lives[j - 1].pc # "idle"
  /\ \E ctx \in LiveContexts :
       \E c \in {r \in ToolRequests : r.name = "manage_schedule"} :
         /\ lives' = [lives EXCEPT ![j] = [pc |-> "agent"]]
         /\ runs' = [runs EXCEPT ![LiveProc(j)] =
              [ExecuteAgentStart(ctx[1], ctx[2], "userMessage", FALSE, FALSE)
                 EXCEPT !.pc = "tools", !.round = 1, !.usage = 1,
                        !.calls = <<c>>, !.requested = <<c>>]]
  /\ UNCHANGED <<now, tzShift, probe, store, history, sent, ticks, ops,
                 lastTickAt, log>>

\* MaxRacers live turns that each make one call of the scheduling tool, over
\* a ledger of one event, and one tick up to the model call of the run it
\* starts for a due event.
SpecRace ==
  /\ InitWith(1, MaxRacers, ParisHost, MaxStored)
  /\ [][\/ Advance
        \/ TickStart(1) \/ TickDone(1) \/ TickSkip(1) \/ TickDispatch(1)
        \/ FireNotify(1)
        \/ \E j \in 1..MaxRacers :
             \/ ToolRoundStart(j)
             \/ ToolInvoke(LiveProc(j)) \/ ToolSave(LiveProc(j))]_vars

\* ------------------------------------------- conversation history, in turn
\* The turns of the conversations one after the other, none overlapping
\* another.  probe.appended is the record of what every conversation was
\* given since it was last cleared; the text of a message names its
\* conversation and its rank there.

\* agent/memory.ts addToHistory: load, push, save.
AddToHistory(h, message) == LastN(Append(h, message), MaxMessagesInHistory)

\* agent/index.ts executeAgent, its end: the input, then the output, are
\* added to the history of the user in the channel.
AddTurnToHistory(userId, channelId) ==
  LET key == <<userId, channelId>>
      n == Len(probe.appended[key])
      human == [role |-> "human", content |-> <<userId, channelId, n + 1>>]
      ai == [role |-> "ai", content |-> <<userId, channelId, n + 2>>]
      path == GetHistoryPath(userId, channelId)
  IN /\ probe.fn \in {"history", "load"}
     /\ n < 2 * MaxTurns
     /\ history' = [history EXCEPT
                      ![path] = AddToHistory(AddToHistory(history[path], human), ai)]
     /\ probe' = [probe EXCEPT !.fn = "history", !.key = key, !.loaded = <<>>,
                               !.appended[key] = Append(Append(@, human), ai)]
     /\ UNCHANGED <<now, tzShift, store, sent, ticks, lives, runs, ops,
                    lastTickAt, log>>

\* agent/index.ts executeAgent, its start: what a run of the user in the
\* channel is given as the conversation so far.
LoadHistoryForRun(userId, channelId) ==
  /\ probe.fn \in {"history", "load"}
  /\ probe' = [probe EXCEPT
       !.fn = "load", !.key = <<userId, channelId>>,
       !.loaded = ExecuteAgentStart(userId, channelId, "hello", FALSE, FALSE).loaded]
  /\ UNCHANGED <<now, tzShift, store, history, sent, ticks, lives, runs, ops,
                 lastTickAt, log>>

\* agent/memory.ts clearHistory, as the clear_history tool calls it: the file
\* of the user in the channel is removed.
ClearHistory(userId, channelId) ==
  /\ probe.fn \in {"history", "load"}
  /\ history' = [history EXCEPT ![GetHistoryPath(userId, channelId)] = <<>>]
  /\ probe' = [probe EXCEPT !.fn = "history", !.key = <<userId, channelId>>,
                            !.loaded = <<>>,
                            !.appended[<<userId, channelId>>] = <<>>]
  /\ UNCHANGED <<now, tzShift, store, sent, ticks, lives, runs, ops,
                 lastTickAt, log>>

SpecHistory ==
  /\ InitBase(0, 0, ParisHost, 0)
  /\ probe = [fn |-> "history", key |-> <<"u1", "chText">>, loaded |-> <<>>,
              appended |-> [k \in Users \X Channels |-> <<>>]]
  /\ [][\E userId \in Users, channelId \in Channels :
          \/ AddTurnToHistory(userId, channelId)
          \/ LoadHistoryForRun(userId, channelId)
          \/ ClearHistory(userId, channelId)]_vars

\* ------------------------------------------------ live turns side by side
\* handleMessage is not awaited by the client: a message that arrives while
\* the turn of another is in flight starts its own turn.  No clock step is
\* needed between them.
SpecTurns ==
  /\ InitWith(0, MaxRacers, ParisHost, 0)
  /\ [][\E j \in 1..MaxRacers :
          \/ HandleMessage(j) \/ LiveReply(j)
          \/ LlmRespond(LiveProc(j))
          \/ ToolInvoke(LiveProc(j)) \/ ToolSave(LiveProc(j))
          \/ AddToHistoryLoad(LiveProc(j))
          \/ AddToHistorySave(LiveProc(j))]_vars

\* -------------------------------------------------- chunkResponse on its own
\* handlers/message.ts DISCORD_SAFE_LIMIT, and the index a break must pass to
\* be taken.
DiscordSafeLimit == 1900
MinBreakIndex == 50

\* The number of pieces a response is made of.
MaxPieces == 2

\* handlers/message.ts chunkResponse, the first test: a response within the
\* limit is returned as the only chunk.  A string is the sequence of its
\* characters.
ChunkResponseStart ==
  /\ probe.fn = "chunkResponse"
  /\ probe.pc = "call"
  /\ probe' = IF Len(probe.response) <= DiscordLimit
              THEN [probe EXCEPT !.pc = "done", !.chunks = <<probe.response>>]
              ELSE [probe EXCEPT !.pc = "loop", !.remaining = probe.response]
  /\ UNCHANGED <<now, tzShift, store, history, sent, ticks, lives, runs, ops,
                 lastTickAt, log>>

\* chunkResponse, one pass of its while loop, or the push of what remains
\* after the last.  Indices are counted from 0 as in the code; -1 is "none".
ChunkResponseLoop ==
  /\ probe.fn = "chunkResponse"
  /\ probe.pc = "loop"
  /\ LET remaining == probe.remaining
         IsSpace(c) == c \in {" ", "\n"}
         Least(S) == CHOOSE m \in S : \A k \in S : m <= k
         Greatest(S) ==
           IF S = {} THEN 0 - 1
           ELSE 0 - Least({0 - i : i \in S})
         Max2(a, b) == IF a >= b THEN a ELSE b
         LastIndexOf(s, a, b) ==
           Greatest({i \in 0..(Len(s) - 2) : s[i + 1] = a /\ s[i + 2] = b})
         TrimEnd(s) ==
           LET keep == {i \in 1..Len(s) : ~IsSpace(s[i])} IN
           IF keep = {} THEN <<>> ELSE SubSeq(s, 1, Greatest(keep))
         TrimStart(s) ==
           LET keep == {i \in 1..Len(s) : ~IsSpace(s[i])} IN
           IF keep = {} THEN <<>> ELSE SubSeq(s, Least(keep), Len(s))
         Prefixed(s, i, word) ==
           /\ i + Len(word) <= Len(s)
           /\ \A k \in 1..Len(word) : s[i + k] = word[k]
         \* URL_REGEX: where a link starts in s, and how many characters
         \* "https?://" takes there (0 when no link starts).
         SchemeLen(s, i) ==
           IF Prefixed(s, i, <<"h", "t", "t", "p", ":", "/", "/">>) THEN 7
           ELSE IF Prefixed(s, i, <<"h", "t", "t", "p", "s", ":", "/", "/">>)
           THEN 8 ELSE 0
         Starts(s) ==
           {i \in {k \in 0..(Len(s) - 1) : s[k + 1] = "h"} :
              /\ SchemeLen(s, i) > 0
              /\ i + SchemeLen(s, i) < Len(s)
              /\ ~IsSpace(s[i + SchemeLen(s, i) + 1])}
         UrlEnd(s, spaces, i) ==
           LET stops == {k \in spaces : k >= i} IN
           IF stops = {} THEN Len(s) ELSE Least(stops)
         \* matchAll: a link that starts inside an earlier match is part of it.
         Matches(s, spaces) ==
           LET starts == Starts(s) IN
           {i \in starts : \A j \in starts : j < i => UrlEnd(s, spaces, j) <= i}
     IN IF Len(remaining) > DiscordSafeLimit
        THEN LET slice == SubSeq(remaining, 1, DiscordSafeLimit)
                 paragraphIndex == LastIndexOf(slice, "\n", "\n")
                 sentenceIndex ==
                   Max2(LastIndexOf(slice, ".", " "),
                        Max2(LastIndexOf(slice, "!", " "),
                             LastIndexOf(slice, "?", " ")))
                 spaceIndex ==
                   Greatest({i \in 0..(Len(slice) - 1) : slice[i + 1] = " "})
                 preferredIndex ==
                   Max2(paragraphIndex, Max2(sentenceIndex, spaceIndex))
                 preferredEnd ==
                   IF preferredIndex > MinBreakIndex
                   THEN preferredIndex
                          + (IF preferredIndex = paragraphIndex THEN 2 ELSE 1)
                   ELSE DiscordSafeLimit
                 spaces == {k \in 0..(Len(slice) - 1) : IsSpace(slice[k + 1])}
                 inside == {i \in Matches(slice, spaces) :
                              /\ i < preferredEnd
                              /\ preferredEnd < UrlEnd(slice, spaces, i)}
                 urlEnd == IF inside = {} THEN preferredEnd ELSE Least(inside)
                 sliceEnd == IF urlEnd <= 0 THEN DiscordSafeLimit ELSE urlEnd
                 chunk == TrimEnd(SubSeq(remaining, 1, sliceEnd))
             IN probe' = [probe EXCEPT
                  !.chunks = IF Len(chunk) > 0 THEN Append(@, chunk) ELSE @,
                  !.remaining = TrimStart(SubSeq(remaining, sliceEnd + 1,
                                                 Len(remaining)))]
        ELSE probe' = [probe EXCEPT
               !.chunks = IF Len(remaining) > 0 THEN Append(@, remaining) ELSE @,
               !.remaining = <<>>,
               !.pc = "done"]
  /\ UNCHANGED <<now, tzShift, store, history, sent, ticks, lives, runs, ops,
                 lastTickAt, log>>

\* chunkResponse applied to every response made of at most MaxPieces pieces,
\* and after it scheduler/index.ts fireEvent's cut of the same text:
\* message.match(/.{1,1990}/gs) when it is longer than 2000 characters, the
\* text itself otherwise.
SpecChunks ==
  /\ LET \* A piece is a word of so many characters, a link when "http://"
         \* is in front of it, and what ends it.
         PieceLens == {0, 45, 1890, 2001}
         PieceEnds == {<<>>, <<" ">>, <<"\n", "\n">>, <<".", " ">>}
         Pieces == BOOLEAN \X PieceLens \X PieceEnds
         Piece(x) ==
           (IF x[1] THEN <<"h", "t", "t", "p", ":", "/", "/">> ELSE <<>>)
             \o [i \in 1..x[2] |-> "x"] \o x[3]
         RECURSIVE Text(_)
         Text(ps) ==
           IF Len(ps) = 0 THEN <<>> ELSE Piece(ps[1]) \o Text(Tail(ps))
     IN \E ps \in UNION {[1..m -> Pieces] : m \in 0..MaxPieces} :
          /\ InitBase(0, 0, ParisHost, 0)
          /\ probe = [fn |-> "chunkResponse", pc |-> "call",
                      response |-> Text(ps), remaining |-> <<>>,
                      chunks |-> <<>>, pieces |-> <<>>]
  /\ [][\/ ChunkResponseStart
        \/ ChunkResponseLoop
        \/ /\ probe.fn = "chunkResponse"
           /\ probe.pc = "done"
           /\ LET message == probe.response
                  n == NumChunks(Len(message))
                  Upto(k) == IF k * ChunkLen < Len(message)
                             THEN k * ChunkLen ELSE Len(message)
              IN probe' = [probe EXCEPT
                   !.pc = "sent",
                   !.pieces = IF Len(message) > DiscordLimit
                              THEN [k \in 1..n |->
                                      SubSeq(message, (k - 1) * ChunkLen + 1,
                                             Upto(k))]
                              ELSE <<message>>]
           /\ UNCHANGED <<now, tzShift, store, history, sent, ticks, lives,
                          runs, ops, lastTickAt, log>>]_vars

\* ================================================================== claims
Terminal == {"completed", "cancelled"}

\* C1: an event whose status is completed or cancelled never changes status
\* again, whatever create, cancel, cancel-all, tick and markEventTriggered
\* steps interleave: in every step, a record that is terminal before the step
\* has the same status after it.
TerminalStatusIsFinal ==
  [][\A i \in 1..Len(store) :
       store[i].status \in Terminal =>
         \A j \in 1..Len(store') :
           store'[j].uid = store[i].uid => store'[j].status = store[i].status]_vars

\* C2: the triggerCount of every one-time event is 0 or 1 in every reachable
\* state, also when a tick starts while the previous tick's firing of the
\* event is not over.
OnceTriggerCountAtMostOne ==
  \A i \in 1..Len(store) :
    store[i].type = "once" => store[i].triggerCount \in {0, 1}

\* C3: the number of records of the persisted ledger never decreases and
\* every record once persisted stays in it: no step makes the ledger shorter
\* or removes a record.
LedgerOnlyGrows ==
  [][/\ Len(store') >= Len(store)
     /\ \A i \in 1..Len(store) :
          \E j \in 1..Len(store') : store'[j].uid = store[i].uid]_vars

\* C4: when the model call of the run made for a fired event fails, the
\* executor does not call markEventTriggered: the firing of such an event
\* ends with the ledger as it was (triggerCount and status unchanged).
ErroredRunNotMarked ==
  [][\A i \in DOMAIN ticks :
       (/\ ticks[i].pc = "mark"
        /\ runs[TickProc(i)].failed
        /\ ticks'[i] # ticks[i])
       => store' = store]_vars

\* C5: when channel.send throws for a fired event's output, the executor
\* does not call markEventTriggered and leaves the ledger as it is; it either
\* sends to the event's channel a notice that holds the event's description
\* and the error's message or (the notice failing) sends nothing, and in both
\* cases returns to the tick's loop.
DeliveryFailureNotified ==
  [][\A i \in DOMAIN ticks :
       /\ (ticks[i].pc \in {"agent", "send"} /\ ticks'[i].pc = "notify")
            => store' = store /\ ops' = ops
       /\ (/\ ticks[i].pc = "notify"
           /\ ticks[i].err \in SendErrors
           /\ ticks'[i] # ticks[i])
            => LET event == Head(ticks[i].queue) IN
               /\ store' = store /\ ops' = ops
               /\ ticks'[i].pc = "eval"
               /\ ticks'[i].queue = Tail(ticks[i].queue)
               /\ \/ sent' = sent
                  \/ /\ sent'.kind = "notice"
                     /\ sent'.channelId = event.channelId
                     /\ sent'.description = event.description
                     /\ sent'.error = ticks[i].err.message]_vars

\* C5, reached: a notice about a send that threw has gone to the channel of
\* an event that is still active and was never counted as triggered.
DeliveryFailureNotifiedReached ==
  /\ sent.kind = "notice"
  /\ sent.error \in {e.message : e \in SendErrors}
  /\ \E j \in 1..Len(store) :
       /\ store[j].uid = sent.uid
       /\ store[j].channelId = sent.channelId
       /\ store[j].status = "active"
       /\ store[j].triggerCount = 0

\* C6: a one-time event whose firing threw stays as it was in the ledger, is
\* in the list of active events every later tick loads while it is active,
\* and is selected as due (dispatched to fireEvent) whenever a tick comes to
\* it: it is never skipped.
FailedOnceRetried ==
  [][\A i \in DOMAIN ticks :
       /\ ((ticks[i].pc = "notify") # (ticks'[i].pc = "notify"))
            => store' = store
       /\ (ticks[i].pc = "idle" /\ ticks'[i].pc = "eval")
            => \A j \in 1..Len(store) :
                 (/\ store[j].type = "once"
                  /\ store[j].status = "active"
                  /\ store[j].uid \in log.failed)
                 => \E k \in 1..Len(ticks'[i].queue) :
                      ticks'[i].queue[k] = store[j]
       /\ (/\ ticks[i].pc = "eval"
           /\ ticks[i].queue # <<>>
           /\ ticks'[i] # ticks[i])
            => LET e == Head(ticks[i].queue) IN
               (e.type = "once" /\ e.uid \in log.failed)
                 => log'.disp[e.uid] = log.disp[e.uid] + 1]_vars

\* C6, reached: the tick after the one in which the delivery of a one-time
\* event threw (that tick is over, its notice was the last message sent) has
\* dispatched the event a second time.
FailedOnceRetriedReached ==
  \E i \in DOMAIN ticks :
    /\ ticks[i].pc = "agent"
    /\ \A k \in DOMAIN ticks : k # i => ticks[k].pc = "done"
    /\ LET e == Head(ticks[i].queue) IN
       /\ e.type = "once"
       /\ e.uid \in log.failed
       /\ log.disp[e.uid] = 2
       /\ sent.kind = "notice"
       /\ sent.uid = e.uid
       /\ sent.error \in {x.message : x \in SendErrors}

\* C7: an active one-time event with triggerCount 0 whose scheduled instant
\* is before the current instant is selected as due by the tick that comes to
\* it, however long ago the instant was.
OverdueOnceIsDue ==
  \A i \in DOMAIN ticks :
    (ticks[i].pc = "eval" /\ ticks[i].queue # <<>>) =>
      LET e == Head(ticks[i].queue) IN
      (/\ e.type = "once"
       /\ e.status = "active"
       /\ e.triggerCount = 0
       /\ e.schedule < now)
      => ShouldEventFire(e, ticks[i].nowAt, now)

\* C8: a one-time event asked "in 1 minute" whose model calls and deliveries
\* all succeeded is, once a tick that started at least a minute after its
\* creation is over, completed with triggerCount 1 and was dispatched exactly
\* once.
RelativeOnceFiresOnce ==
  \A i \in DOMAIN ticks : \A j \in 1..Len(store) :
    LET e == store[j] IN
    (/\ e.type = "once"
     /\ e.uid \in log.rel
     /\ e.uid \notin log.failed
     /\ e.uid \notin log.erred
     /\ ticks[i].pc = "done"
     /\ ticks[i].nowAt - tzShift >= e.createdAt + MinuteLen)
    => /\ e.status = "completed"
       /\ e.triggerCount = 1
       /\ log.disp[e.uid] = 1

\* C9: the catalog of the run made for a fired event never holds
\* manage_schedule, that run has no ledger operation in flight and none of
\* its tool steps changes the ledger; the catalog of a live turn's run holds
\* manage_schedule.
FiredRunCannotSchedule ==
  [][/\ \A i \in DOMAIN ticks :
          runs[TickProc(i)].pc # "none" =>
            /\ "manage_schedule" \notin runs[TickProc(i)].tools
            /\ ops[TickProc(i)].kind \notin {"create", "cancel", "cancelAll"}
            /\ (runs[TickProc(i)].pc = "tools"
                /\ runs'[TickProc(i)] # runs[TickProc(i)]) => store' = store
     /\ \A j \in DOMAIN lives :
          runs[LiveProc(j)].pc # "none" =>
            "manage_schedule" \in runs[LiveProc(j)].tools]_vars

\* C9, reached: the model asks manage_schedule of the run made for a fired
\* event, while a live turn's run has a create of the same tool in flight.
FiredRunCannotScheduleReached ==
  /\ \E i \in DOMAIN ticks :
       /\ runs[TickProc(i)].pc = "tools"
       /\ Head(runs[TickProc(i)].calls).name = "manage_schedule"
  /\ \E j \in DOMAIN lives :
       /\ runs[LiveProc(j)].pc = "tools"
       /\ ops[LiveProc(j)].kind = "create"

\* C10: a run with skipHistory set leaves the stored conversation history as
\* it is: no step of such a run, its tool calls set aside, changes a
\* history file.
SkipHistoryKeepsHistory ==
  [][\A p \in DOMAIN runs :
       (/\ runs[p].pc \notin {"none", "tools"}
        /\ runs[p].skipHistory
        /\ runs'[p] # runs[p])
       => history' = history]_vars

\* C11: every dispatch of a due event to fireEvent goes on to a chat message
\* for the event's channel, the produced output or the failure notice: the
\* step that hands an event to fireEvent leaves the tick either running the
\* agent for it or in fireEvent's catch, never back in the loop with nothing
\* sent.
DispatchNeverDropped ==
  [][\A i \in 1..MaxTicks :
       (/\ ticks[i].pc = "eval"
        /\ ticks'[i] # ticks[i]
        /\ log'.disp # log.disp)
       => ticks'[i].pc \in {"agent", "notify"}]_vars

\* C12: cancelEvent(id) returns true exactly when the event of that id is in
\* the ledger and active, and then that record, and no other, becomes
\* cancelled with completedAt the time of the call; in every other case (no
\* such id, or the event completed or cancelled) it returns false and the
\* ledger is as it was.  A cancel that follows a cancel of the same id which
\* returned true returns false.
CancelExactlyWhenActive ==
  [][(probe' # probe /\ probe'.fn = "cancel") =>
       LET before == probe'.before
           after == store'
           i == FindById(before, probe'.id)
           hit == i # 0 /\ before[i].status = "active"
       IN /\ probe'.ret = hit
          /\ hit => /\ Len(after) = Len(before)
                    /\ after[i].status = "cancelled"
                    /\ after[i].completedAt = probe'.at
                    /\ after[i] = [before[i] EXCEPT
                                     !.status = "cancelled",
                                     !.completedAt = probe'.at]
                    /\ \A j \in 1..Len(before) : j # i => after[j] = before[j]
          /\ ~hit => after = before
          /\ (probe.fn = "cancel" /\ probe.id = probe'.id /\ probe.ret)
               => ~probe'.ret]_vars

\* A cancel of an event that an earlier cancel had cancelled returned false.
CancelExactlyWhenActiveReached ==
  /\ probe.fn = "cancel"
  /\ ~probe.ret
  /\ \E i \in 1..Len(probe.before) :
       /\ probe.before[i].id = probe.id
       /\ probe.before[i].status = "cancelled"
       /\ probe.before[i].completedAt # NoTime
  /\ store = probe.before

\* C13: cancelUserEvents(userId) returns the number of events that were active
\* and owned by userId when it was called, leaves no event of that owner
\* active, and leaves every event of another owner and every event that was
\* not active exactly as it was.
CancelAllCountsAndFrames ==
  probe.fn = "cancelAll" =>
    LET before == probe.before
        after == store
        Mine(e) == e.userId = probe.userId /\ e.status = "active"
    IN /\ probe.ret = Cardinality({i \in 1..Len(before) : Mine(before[i])})
       /\ Len(after) = Len(before)
       /\ \A i \in 1..Len(after) :
            after[i].userId = probe.userId => after[i].status # "active"
       /\ \A i \in 1..Len(before) :
            ~Mine(before[i]) => after[i] = before[i]

\* A cancelUserEvents call cancelled an event of its owner while an active
\* event of another owner was in the ledger, and that one is still active.
CancelAllCountsAndFramesReached ==
  /\ probe.fn = "cancelAll"
  /\ probe.ret >= 1
  /\ \E i \in 1..Len(store) :
       store[i].userId # probe.userId /\ store[i].status = "active"
  /\ \E i \in 1..Len(store) :
       /\ probe.before[i].userId = probe.userId
       /\ probe.before[i].status = "active"
       /\ store[i].status = "cancelled"

\* C14: markEventTriggered(id) on an event of the ledger adds exactly 1 to its
\* triggerCount and sets lastTriggeredAt to the time of the call; a once event
\* also becomes completed with completedAt that time, a recurring event keeps
\* its status and completedAt; no other field of it and no other record
\* changes.  For an id the ledger lacks, the ledger is as it was.
MarkChangesOnlyItsRecord ==
  probe.fn = "mark" =>
    LET before == probe.before
        after == store
        i == FindById(before, probe.id)
    IN /\ Len(after) = Len(before)
       /\ \A j \in 1..Len(before) : j # i => after[j] = before[j]
       /\ i # 0 =>
            /\ after[i].triggerCount = before[i].triggerCount + 1
            /\ after[i].lastTriggeredAt = probe.at
            /\ before[i].type = "once" =>
                 /\ after[i].status = "completed"
                 /\ after[i].completedAt = probe.at
            /\ before[i].type = "cron" =>
                 /\ after[i].status = before[i].status
                 /\ after[i].completedAt = before[i].completedAt
            /\ \A f \in DOMAIN before[i] \ {"triggerCount", "lastTriggeredAt",
                                            "status", "completedAt"} :
                 after[i][f] = before[i][f]

\* markEventTriggered was called for a recurring event that had fired before,
\* with a once event beside it in the ledger.
MarkChangesOnlyItsRecordReached ==
  /\ probe.fn = "mark"
  /\ \E i \in 1..Len(store) :
       /\ i = FindById(probe.before, probe.id)
       /\ store[i].type = "cron"
       /\ store[i].triggerCount = 2
       /\ store[i].status = "active"
  /\ \E j \in 1..Len(store) : store[j].type = "once"

\* C15: no two records of the ledger have the same id, so an id given to one
\* event is never given to a later one.
LedgerIdsDistinct ==
  \A i, j \in 1..Len(store) : i # j => store[i].id # store[j].id

\* C16: for every field expression of the validator's grammar and every value,
\* matchesCronPart gives the reference result: true for `*`; value mod n = 0
\* for `*/n`; for a list of items, the value is one of the items, equal to an
\* item that is an integer or inside an item that is a range.
FieldMatchIsReference ==
  (probe.fn = "matchesCronPart" /\ probe.done) =>
    LET f == probe.field
        v == probe.value
        InItem(x) == IF x.k = "int" THEN v = x.v ELSE x.a <= v /\ v <= x.b
    IN probe.ret =
         CASE f.k = "star" -> TRUE
           [] f.k = "step" -> v % f.n = 0
           [] f.k = "items" -> \E i \in 1..Len(f.items) : InItem(f.items[i])

\* C17: the expression create_recurring stores for a recognized phrase is due
\* exactly on the phrase's occurrences, at every minute of one week: "every
\* day (morning, evening) at h:m" at h:m of every day, "every weekday at h:m"
\* at h:m Monday to Friday, "every weekend at h:m" at h:m Saturday and
\* Sunday, "every <day name> at h:m" at h:m of that day, "every n minutes" at
\* the minutes divisible by n, "every n hours" at minute 0 of the hours
\* divisible by n, "every minute" always, "every hour" at minute 0; and at no
\* other minute.
PhraseDueOnItsOccurrences ==
  (probe.fn = "createRecurring" /\ probe.done) =>
    LET ph == probe.phrase
        minute == (probe.at \div MinuteLen) % 60
        hour == (probe.at \div (60 * MinuteLen)) % 24
        weekday == (BaseDow + (probe.at \div (24 * 60 * MinuteLen))) % 7
        AtTime == hour = ph.h /\ minute = ph.m
        DayNumber(w) ==
          CASE w \in {"sunday", "sun"} -> 0
            [] w \in {"monday", "mon"} -> 1
            [] w \in {"tuesday", "tue"} -> 2
            [] w \in {"wednesday", "wed"} -> 3
            [] w \in {"thursday", "thu"} -> 4
            [] w \in {"friday", "fri"} -> 5
            [] w \in {"saturday", "sat"} -> 6
        Occurs ==
          CASE ph.k = "everyUnit" -> ph.unit = "minute" \/ minute = 0
            [] ph.k = "every" /\ ph.unit = "minute" -> minute % ph.n = 0
            [] ph.k = "every" /\ ph.unit = "hour" ->
                 minute = 0 /\ hour % ph.n = 0
            [] ph.k = "everyAt" /\ ph.who \in {"day", "morning", "evening"} ->
                 AtTime
            [] ph.k = "everyAt" /\ ph.who = "weekday" ->
                 AtTime /\ weekday \in 1..5
            [] ph.k = "everyAt" /\ ph.who = "weekend" ->
                 AtTime /\ weekday \in {0, 6}
            [] OTHER -> AtTime /\ weekday = DayNumber(ph.who)
    IN probe.created /\ (probe.ret <=> Occurs)

\* "every weekday at 8:30" was found due at 08:30 on a Wednesday.
PhraseDueOnItsOccurrencesReached ==
  /\ probe.fn = "createRecurring"
  /\ probe.done
  /\ probe.phrase = [k |-> "everyAt", who |-> "weekday", h |-> 8, m |-> 30]
  /\ probe.at = MinuteLen * (8 * 60 + 30)
  /\ BaseDow = 3
  /\ probe.ret

\* C18: isValidCron(expr) is true exactly when expr has five fields parted by
\* whitespace and every field is `*`, `*/n`, or a list of one or more items
\* parted by commas, each item an integer or a range a-b.  It accepts
\* `30 9 * * 1-5`, `*/15 * * * *` and `0,30 * * * *`, rejects `30 9 * *`, and
\* accepts minute 61.
ValidIffFiveGrammarFields ==
  (probe.fn = "isValidCron" /\ probe.done) =>
    LET text == probe.cron
        IsBlank(i) == i < 1 \/ i > Len(text) \/ text[i] = Sp
        \* the fields: the longest stretches without a blank
        Starts == {i \in 1..Len(text) : ~IsBlank(i) /\ IsBlank(i - 1)}
        EndOf(i) == CHOOSE j \in i..Len(text) :
                      IsBlank(j + 1) /\ \A m \in i..j : ~IsBlank(m)
        IsInt(f, i) == i <= Len(f) /\ f[i].k = "n"
        \* a list read item by item: position i begins an item, and the
        \* item ends the field or is followed by a comma and another item
        ItemEnds(f, i) ==
          {i} \cup (IF i + 1 <= Len(f) /\ f[i + 1] = Dash /\ IsInt(f, i + 2)
                    THEN {i + 2} ELSE {})
        RECURSIVE IsList(_, _)
        IsList(f, i) ==
          /\ IsInt(f, i)
          /\ \E e \in ItemEnds(f, i) :
               \/ e = Len(f)
               \/ e + 1 <= Len(f) /\ f[e + 1] = Comma /\ IsList(f, e + 2)
        InGrammar(f) ==
          \/ f = <<StarTok>>
          \/ Len(f) = 3 /\ f[1] = StarTok /\ f[2] = Slash /\ IsInt(f, 3)
          \/ IsList(f, 1)
    IN /\ probe.ret <=>
            /\ Cardinality(Starts) = 5
            /\ \A i \in Starts : InGrammar(SubSeq(text, i, EndOf(i)))
       /\ text = CronOf(Num(30), Num(9), Star, Star, Range(1, 5)) => probe.ret
       /\ text = CronOf(Step(15), Star, Star, Star, Star) => probe.ret
       /\ text = CronOf(Listed(Num(0), Num(30)), Star, Star, Star, Star)
            => probe.ret
       /\ text = Num(30) \o <<Sp>> \o Num(9) \o <<Sp>> \o Star \o <<Sp>> \o Star
            => ~probe.ret
       /\ text = CronOf(Num(61), Star, Star, Star, Star) => probe.ret

\* isValidCron was asked about minute 61 and accepted it.
ValidIffFiveGrammarFieldsReached ==
  /\ probe.fn = "isValidCron"
  /\ probe.done
  /\ probe.cron = CronOf(Num(61), Star, Star, Star, Star)
  /\ probe.ret

\* C19: parseTimeToISO never raises a fault: for every phrase, those of a
\* recognized shape with a part out of range included, it returns an instant
\* or null.
ParseNeverThrows ==
  (probe.fn = "parseTimeToISO" /\ probe.done) => probe.ret # RangeErrorThrown

\* C20: under every offset of the process's own zone, a one-time event asked
\* with an absolute phrase is selected as due for the first time by the tick
\* of the minute the Paris wall clock reads the requested minute (the minute
\* of the event's instant), and by no tick before that minute.
AbsoluteOnceDueAtItsMinute ==
  \A i \in 1..MaxTicks :
    (ticks[i].pc = "eval" /\ ticks[i].queue # <<>>) =>
      LET e == Head(ticks[i].queue)
          due == ShouldEventFire(e, ticks[i].nowAt, now)
      IN (/\ e.type = "once"
          /\ e.uid \notin log.rel
          /\ e.status = "active"
          /\ e.triggerCount = 0)
         => /\ due => StartOfMinute(now) >= StartOfMinute(e.schedule)
            /\ StartOfMinute(now) = StartOfMinute(e.schedule) => due

\* C21: under every offset of the process's own zone, the instant
\* parseTimeToISO returns for "in N unit" (unit minute, hour, day or week) is
\* the instant of the call plus N units, to the minute.
RelativeIsNowPlusAmount ==
  (probe.fn = "parseTimeToISO" /\ probe.done /\ probe.phrase.k = "in") =>
    LET unit == probe.phrase.unit
        len == CASE unit = "minute" -> MinuteLen
                 [] unit = "hour" -> 60 * MinuteLen
                 [] unit = "day" -> 24 * 60 * MinuteLen
                 [] unit = "week" -> 7 * 24 * 60 * MinuteLen
    IN StartOfMinute(probe.ret) = StartOfMinute(probe.at + probe.phrase.n * len)

\* C22: runAgent never hands a fault to its caller.  The step in which a
\* model call of a run fails ends the run with an advisory text as its
\* result, of the class its message selects (the calls fail with a timeout
\* message or with a message of no class); and a run that has failed makes no
\* further step, hence no further model call, before its caller takes the
\* result.
FailedRunReturnsAdvisory ==
  [][\A p \in ProcsOf(MaxOverlap, 0) :
       /\ (runs[p].pc = "llm" /\ runs'[p] # runs[p] /\ runs'[p].pc # "none"
             /\ runs'[p].failed)
          => /\ runs'[p].pc = "ret"
             /\ runs'[p].output.kind = "advisory"
             /\ runs'[p].output.cls \in {"timeout", "generic"}
       /\ (runs[p].pc # "none" /\ runs[p].failed)
          => /\ runs[p].pc = "ret"
             /\ runs'[p] = runs[p] \/ runs'[p] = NoRun]_vars

\* A run whose second model call, the one after a tool round, failed has
\* returned the timeout advisory.
FailedRunReturnsAdvisoryReached ==
  \E p \in ProcsOf(MaxOverlap, 0) :
    /\ runs[p].pc = "ret"
    /\ runs[p].failed
    /\ runs[p].round = 1
    /\ runs[p].output.kind = "advisory"
    /\ runs[p].output.cls = "timeout"

\* C24: the history of a conversation holds only messages of its own user
\* and channel, a run is given only those, and no step changes the history of
\* a conversation other than the one the step is for.
HistoryKeyedByUserAndChannel ==
  [][probe'.fn \in {"history", "load"} =>
       /\ \A k \in Users \X Channels :
            /\ \A i \in 1..Len(history'[k]) :
                 <<history'[k][i].content[1], history'[k][i].content[2]>> = k
            /\ k # probe'.key => history'[k] = history[k]
       /\ \A i \in 1..Len(probe'.loaded) :
            <<probe'.loaded[i].content[1], probe'.loaded[i].content[2]>>
              = probe'.key]_vars

\* A run of u1 in the thread is given the two messages of that conversation
\* while the same user's other channel and the other user's conversation in
\* the thread hold messages of their own.
HistoryKeyedByUserAndChannelReached ==
  /\ probe.fn = "load"
  /\ probe.key = <<"u1", "chThread">>
  /\ Len(probe.loaded) = 2
  /\ Len(history[<<"u1", "chText">>]) = 4
  /\ Len(history[<<"u2", "chThread">>]) = 6

\* C23: the stored history of a conversation is the end of what was added to
\* it, in order.  Step by step: the save that ends an addToHistory leaves the
\* conversation as it was stored just before with the new message after it,
\* cut to its last MaxMessagesInHistory messages, so that no message stored
\* before is lost while the history is short of that length.
AppendKeepsWhatWasStored ==
  [][\A p \in ProcsOf(MaxTicks, MaxLive) :
       (runs[p].pc \in {"hist1w", "hist2w"} /\ runs'[p].pc # runs[p].pc)
         => LET k == <<runs[p].userId, runs[p].channelId>>
                message == runs[p].hbuf[Len(runs[p].hbuf)]
                whole == Append(history[k], message)
                from == IF Len(whole) > MaxMessagesInHistory
                        THEN Len(whole) - MaxMessagesInHistory ELSE 0
            IN history'[k] = [i \in 1..(Len(whole) - from) |-> whole[from + i]]]_vars

\* C25: no two mutating operations of the ledger are in flight together: at
\* most one process, tick or live turn, stands between the load and the save
\* of a create, a cancel, a cancel-all or a markEventTriggered.
OneLedgerMutationAtATime ==
  \A p, q \in ProcsOf(MaxTicks, MaxLive) :
    (ops[p] # NoOp /\ ops[q] # NoOp) => p = q

\* C26: within one tick the events are taken one at a time in the order of
\* the listing, and nothing that goes wrong while one is fired keeps the
\* tick from the rest.  The list the tick still has to go through only loses
\* its head, and only once the firing of the head is over; an event is
\* handed to fireEvent only while no run of the tick is under way and no event
\* listed before it is still waiting; a firing that failed leaves the list as
\* it is until its notice is dealt with; and the tick ends only with the list
\* empty.
TickGoesThroughItsList ==
  [][LET t == ticks[1]
         u == ticks'[1]
         PlaceOf(id) == FindById(store, id)
     IN (t.pc \notin {"idle", "done"} /\ u # t) =>
          /\ u.queue = t.queue \/ u.queue = Tail(t.queue)
          /\ u.queue # t.queue =>
               (u.pc = "eval" /\ runs'[TickProc(1)] = NoRun /\ ops'[TickProc(1)] = NoOp)
          /\ (t.pc = "eval" /\ u.pc \in {"agent", "notify"}) =>
               /\ runs[TickProc(1)] = NoRun
               /\ \A k \in 1..Len(t.queue) :
                    PlaceOf(t.queue[k].id) >= PlaceOf(Head(t.queue).id)
          /\ u.pc = "notify" => u.queue = t.queue
          /\ u.pc = "done" => (t.pc = "eval" /\ t.queue = <<>>)]_vars

\* The tick is over; of the two events of its list the first failed to be
\* fired and the second was handed to fireEvent nonetheless.
TickGoesThroughItsListReached ==
  /\ ticks[1].pc = "done"
  /\ Len(store) = 2
  /\ log.disp = <<1, 1>>
  /\ 1 \in log.failed
  /\ 2 \notin log.failed

\* C27: a recurring event whose firing failed (fireEvent threw for it, or the
\* model call of its run failed) is active with the triggerCount it had, 0
\* here, and has been handed to fireEvent once only: the tick of the minute
\* after, which its expression does not match, leaves it alone.
FailedRecurringWaitsForItsMinute ==
  \A i \in 1..Len(store) :
    (store[i].type = "cron" /\ store[i].uid \in log.failed \cup log.erred)
      => /\ store[i].status = "active"
         /\ store[i].triggerCount = 0
         /\ log.disp[store[i].uid] = 1

\* C28: in a tool round every call the model asked for is attempted and gives
\* one entry of the results, in the order asked.  While the round goes on the
\* entries so far and the calls still to make add up to the calls asked, the
\* k-th entry bearing the name of the k-th call; the entry of a name the
\* catalog lacks is "Tool not found", and a call that failed leaves the calls
\* after it to be made; and the follow-up query is made with one entry per
\* call, the run not having failed.
EveryCallGivesOneEntry ==
  \A p \in ProcsOf(0, 1) :
    (runs[p].pc \in {"tools", "llm"} /\ runs[p].round > 0) =>
      LET run == runs[p]
          made == Len(run.results)
      IN /\ made + Len(run.calls) = Len(run.requested)
         /\ \A k \in 1..made :
              /\ run.results[k].name = run.requested[k].name
              /\ run.requested[k].name \notin run.tools
                   => run.results[k].text = "Error - Tool not found"
         /\ \A k \in 1..Len(run.calls) : run.calls[k] = run.requested[made + k]
         /\ run.pc = "llm" => (made = Len(run.requested) /\ ~run.failed)

\* Of the two calls of a round the first, for a tool the catalog lacks, gave
\* "Tool not found" and the second threw; both have their entry and the
\* follow-up query is next.
EveryCallGivesOneEntryReached ==
  \E p \in ProcsOf(0, 1) :
    /\ runs[p].pc = "llm"
    /\ runs[p].round = 1
    /\ Len(runs[p].requested) = 2
    /\ runs[p].results[1] = [name |-> "no_such_tool", text |-> "Error - Tool not found"]
    /\ runs[p].results[2] = [name |-> "web_search", text |-> "Error - message"]

\* C29: when a run returns, the token counts of all the model calls it made
\* that returned have been added to the user's counters, also when the run
\* ends with a failure after a call that returned.
AllUsagePersisted ==
  \A p \in ProcsOf(0, 1) :
    runs[p].pc = "ret" => runs[p].added = runs[p].usage

\* C30: the first model query of a run, and no other, has the tools bound,
\* and a response that asks for no tool ends the querying.  Hence a run in
\* which no query made without tools was answered with a request for tools
\* has at most one tool round and at most two model calls that returned.
OnlyFirstQueryBound ==
  \A p \in ProcsOf(0, 1) :
    runs[p].pc # "none" =>
      /\ runs[p].pc = "llm" => (runs[p].bound <=> runs[p].round = 0)
      /\ runs[p].pc \in {"hist1", "hist1w", "hist2", "hist2w"}
           => (runs[p].output.kind = "text" /\ runs[p].calls = <<>>)
      /\ ~runs[p].unboundAsked => (runs[p].round <= 1 /\ runs[p].usage <= 2)

\* A run has returned after one tool round and two model calls, its second
\* query made without tools.
OnlyFirstQueryBoundReached ==
  \E p \in ProcsOf(0, 1) :
    /\ runs[p].pc = "ret"
    /\ ~runs[p].failed
    /\ ~runs[p].bound
    /\ ~runs[p].unboundAsked
    /\ runs[p].round = 1
    /\ runs[p].usage = 2

\* C31: a create_once request the scheduling tool does not accept (its time
\* phrase gives no instant) is answered with the guidance text, without a
\* fault, and the ledger stays as it is: the step that handles such a request
\* starts no ledger operation, leaves the ledger alone and adds the guidance
\* to the results of the round.
RejectedCreateGivesGuidance ==
  [][\A p \in ProcsOf(0, 1) :
       (/\ runs[p].pc = "tools"
        /\ runs'[p] # runs[p]
        /\ ops[p] = NoOp
        /\ ops'[p] = NoOp
        /\ Head(runs[p].calls).name = "manage_schedule"
        /\ Head(runs[p].calls).action = "create_once")
       => /\ store' = store
          /\ runs'[p].results[Len(runs'[p].results)].text = "guidance"]_vars

\* C32: the schedule of every recurring event create_recurring stores is
\* read by shouldEventFire as five fields: split at single blanks, as the
\* firing loop splits it, it has five parts.
StoredPatternHasFiveFields ==
  (probe.fn \in {"createRecurring", "createRaw"} /\ probe.done /\ probe.created)
    => Len(SplitBlank(ParseNaturalCron(probe.phrase))) = 5

\* C33: when an event is handed to fireEvent its record in the ledger is
\* active at that moment: in every step that dispatches an event, the
\* stored record of its id has status active.
DispatchedEventIsActive ==
  [][\A u \in DOMAIN log.disp :
       log'.disp[u] > log.disp[u]
         => \E i \in 1..Len(store) :
              store[i].uid = u /\ store[i].status = "active"]_vars

\* C34: once cancelEvent has returned true for an event, no tick that begins
\* afterwards fires it.  A live turn holds the answer of its cancel call in
\* the results of its round; in every step in which a tick begins, the event
\* at the head of the list the tick loads, if it is due (the tick's next step
\* hands it to fireEvent), is not one whose cancel has been answered with
\* success.
CancelledStaysOffTheTicks ==
  [][(ticks[1].pc = "idle" /\ ticks'[1].pc = "eval" /\ ticks'[1].queue # <<>>)
       => LET event == Head(ticks'[1].queue) IN
          ShouldEventFire(event, ticks'[1].nowAt, now)
            => ~\E j \in 1..MaxRacers :
                  LET run == runs[LiveProc(j)] IN
                  /\ run.pc = "llm"
                  /\ run.requested[1].action = "cancel"
                  /\ run.requested[1].eventId = event.id
                  /\ run.results[1].text = "result"]_vars

\* C35: the output of a one-time event is delivered in full at most once.
\* An event is marked completed only after its output was delivered in full,
\* and a tick that has delivered it in full is about to mark it; so in every
\* step in which a tick sends the last piece of the output of a one-time
\* event, the event is not completed and no other tick is about to mark it.
OnceDeliveredInFullOnce ==
  [][\A i \in 1..MaxOverlap :
       (ticks[i].pc \in {"agent", "send"} /\ ticks'[i].pc = "mark"
          /\ Head(ticks[i].queue).type = "once")
         => LET event == Head(ticks[i].queue) IN
            /\ \A k \in 1..Len(store) :
                 store[k].id = event.id => store[k].status # "completed"
            /\ \A j \in (1..MaxOverlap) \ {i} :
                 ~(ticks[j].pc = "mark" /\ Head(ticks[j].queue).id = event.id)]_vars

\* C36: in every ledger reached by createScheduledEvent, cancelEvent,
\* cancelUserEvents and markEventTriggered called one at a time, an active
\* one-time event has triggerCount 0, a completed event is a one-time event
\* with triggerCount at least 1 and completedAt set, a cancelled event has
\* completedAt set, and an active event has no completedAt.
StatusAgreesWithItsFields ==
  \A i \in 1..Len(store) :
    LET e == store[i] IN
    /\ (e.status = "active" /\ e.type = "once") => e.triggerCount = 0
    /\ e.status = "completed"
         => e.type = "once" /\ e.triggerCount >= 1 /\ e.completedAt # NoTime
    /\ e.status = "cancelled" => e.completedAt # NoTime
    /\ e.status = "active" => e.completedAt = NoTime

\* A ledger holding a completed event and a cancelled one, the last call
\* having marked an event that was not active.
StatusAgreesWithItsFieldsReached ==
  /\ probe # NoProbe
  /\ probe.fn = "mark"
  /\ \E i \in 1..Len(probe.before) :
       probe.before[i].id = probe.id /\ probe.before[i].status # "active"
  /\ \E i \in 1..Len(store) : store[i].status = "completed"
  /\ \E i \in 1..Len(store) : store[i].status = "cancelled"

\* C37: the scheduling tool's cancel called in a turn of user U never changes
\* an event of another user: in every step that saves the ledger for a cancel
\* of a live turn, every event whose userId is not the turn's user is left as
\* it was.
CancelLeavesOtherUsersEvents ==
  [][\A j \in 1..MaxLive :
       LET p == LiveProc(j) IN
       (ops[p].kind = "cancel" /\ ops'[p] = NoOp)
         => \A i \in 1..Len(store) :
              store[i].userId # runs[p].userId
                => i <= Len(store') /\ store'[i] = store[i]]_vars

\* C38: when two live turns of the same user in the same channel overlap and
\* both complete, the stored history holds the input and the final text of
\* both.  For two turns that called no tool and have both returned their
\* text, the conversation, empty before, holds four messages: two inputs and
\* two answers.
BothTurnsStored ==
  \A a, b \in 1..MaxRacers :
    LET p == LiveProc(a)
        q == LiveProc(b)
        Roles(h, role) == Cardinality({i \in 1..Len(h) : h[i].role = role})
    IN (/\ a # b
        /\ runs[p].pc = "ret" /\ runs[q].pc = "ret"
        /\ ~runs[p].failed /\ ~runs[q].failed
        /\ runs[p].round = 0 /\ runs[q].round = 0
        /\ runs[p].userId = runs[q].userId
        /\ runs[p].channelId = runs[q].channelId)
       => LET h == history[GetHistoryPath(runs[p].userId, runs[p].channelId)]
          IN /\ Len(h) = 4
             /\ Roles(h, "human") = 2
             /\ Roles(h, "ai") = 2

\* C39: every chunk chunkResponse returns is non-empty and at most 2000
\* characters long, and every piece fireEvent sends for an output is at most
\* 2000 characters long.
ChunksFitTheTransport ==
  (probe.fn = "chunkResponse" /\ probe.pc \in {"done", "sent"})
    => /\ \A k \in 1..Len(probe.chunks) :
            Len(probe.chunks[k]) > 0 /\ Len(probe.chunks[k]) <= DiscordLimit
       /\ \A k \in 1..Len(probe.pieces) : Len(probe.pieces[k]) <= DiscordLimit

====
